---- MODULE Spec2Model ----
(***************************************************************************)
(* A model of the shape-adaptive networks of portfolio_models.py:          *)
(* AssetEncoder, PortfolioCritic and EnhancedPortfolioActor with its       *)
(* lazily built attention projections and trunk; of FinancialCalendar; and *)
(* of align_dataframes of the training script.                             *)
(*                                                                         *)
(* A tensor of shape (batch, width) is modelled by its batch size and by   *)
(* the layout of one row: a sequence of columns, each column a tag that    *)
(* says where its value comes from.  All rows of a batch share the layout. *)
(* A layer is modelled by its input and output widths, the identity of the *)
(* Python object (a serial number) and the place of the process-wide       *)
(* random stream its weights were drawn from.                              *)
(***************************************************************************)
EXTENDS Integers, Sequences, FiniteSets, TLC

VARIABLES
    rng,      \* the process-wide torch random generator: [seed, pos]
    serial,   \* number of layer objects created so far (object identity)
    args,     \* the constructor arguments the instances are built with
    actors,   \* instance -> EnhancedPortfolioActor object (or NoActor)
    calls,    \* number of forward calls made so far
    last,     \* what the most recent call did (its inputs, steps and result)
    outs,     \* instance -> result of that instance's most recent forward
    encoders, \* instance -> AssetEncoder object constructed on its own
    critics,  \* instance -> PortfolioCritic object (or NoCritic)
    qcall,    \* what the most recent PortfolioCritic.forward did
    threads,  \* thread -> its forward call on the shared actor: pc and locals
    race,     \* what the threads' calls have done to the shared actor so far
    events,   \* FinancialCalendar.events: date -> list of events
    upcoming, \* the most recent get_upcoming_events call and its result
    dfs,      \* the per-ticker frames given to align_dataframes
    aligned,  \* the frames align_dataframes returned
    csv,      \* the CSV files of the tickers and the training fraction
    dfs_test, \* the test frames load_data_for_tickers returned
    aligned_test  \* the result of align_dataframes(dfs_test)

netVars == <<rng, serial, args, actors, calls, last, outs>>
partVars == <<encoders, critics, qcall>>
threadVars == <<threads, race>>
calVars == <<events, upcoming>>
dataVars == <<dfs, aligned, csv, dfs_test, aligned_test>>

vars == <<rng, serial, args, actors, calls, last, outs, encoders, critics,
          qcall, threads, race, events, upcoming, dfs, aligned, csv,
          dfs_test, aligned_test>>

----------------------------------------------------------------------------
(* Bounds of the model *)

MaxAssets == 2
MaxWidth == 5
MaxCalls == 2

ActionSizes == 1..MaxAssets
FeatureSizes == {1, 2}
OutputSizes == {1, 2}
StateSizes == 0..MaxWidth
Widths == 0..MaxWidth
Batches == {1, 2}
Instances == {1, 2}

(* Program constants *)

EncoderHidden == 32
CriticFcs1Units == 256
CriticFc2Units == 128
CriticFc3Units == 64
DefaultEncodingSize == 32
DefaultFc1Units == 256
DefaultFc2Units == 128
DefaultSeed == 0

----------------------------------------------------------------------------
(* Python values *)

None == -1

\* the one element of a singleton set: The({e(x) : x \in {v}}) evaluates v
\* once and e with x bound to its value
The(S) == CHOOSE r \in S : TRUE

Min(a, b) == IF a < b THEN a ELSE b
Max(a, b) == IF a > b THEN a ELSE b

\* x or y, for an integer or None x
PyOr(x, y) == IF x = None \/ x = 0 THEN y ELSE x

\* row[:n] for n >= 0
SliceTo(row, n) == SubSeq(row, 1, Min(n, Len(row)))

\* row[n:] for n >= 0
SliceFrom(row, n) == SubSeq(row, Min(n, Len(row)) + 1, Len(row))

\* row[-n:] for n > 0: a start before the row is clamped to its first column
SliceLast(row, n) == SubSeq(row, Max(Len(row) - n, 0) + 1, Len(row))

\* row[:-n] for n > 0
SliceDropLast(row, n) == SubSeq(row, 1, Max(Len(row) - n, 0))

(* Columns *)

ObsCol(k) == <<"obs", k, 0>>
ZeroCol == <<"zero", 0, 0>>
EncCol(i, j) == <<"enc", i, j>>
\* a slip: zeros are concatenated where the context belongs
CtxCol_Zero(j) == <<"zero", 0, 0>>

CtxCol(j) == <<"ctx", j, 0>>

ObsRow(F) == [k \in 1..F |-> ObsCol(k)]
\* a slip: the padding is one column short
Zeros_OneShort(n) == [k \in 1..(n - 1) |-> ZeroCol]

Zeros(n) == [k \in 1..n |-> ZeroCol]

\* tensor.view(shape) of a (batch, width) tensor: the element counts must
\* agree.  Every tensor viewed here is a whole tensor or a slice of leading
\* columns, whose width can be split whatever the row stride, so the element
\* count alone decides.
ViewOk(batch, width, shape) == batch * width = shape[1] * shape[2] * shape[3]

\* a slip: the row is dealt out to the chunks column by column
Chunks_Strided(row, n, size) ==
    [i \in 1..n |-> [k \in 1..size |-> row[(k - 1) * n + i]]]

\* the chunks of a row viewed as (n, size)
Chunks(row, n, size) == [i \in 1..n |-> SubSeq(row, (i - 1) * size + 1, i * size)]

----------------------------------------------------------------------------
(* The random generator and the layers *)

\* the generator and the object counter, threaded through the constructors
G(r, s) == [rng |-> r, serial |-> s]

\* a slip: the constructor leaves the generator where it is
manual_seed_Keep(g, seed) == g

manual_seed(g, seed) == [g EXCEPT !.rng = [seed |-> seed, pos |-> 0]]

NoDraw == <<None, None>>
NoLayer == [inW |-> None, outW |-> None, id |-> 0, w |-> NoDraw]

\* nn.Linear(inW, outW): a new object whose weight and bias are drawn from
\* the process-wide generator
Linear(g, inW, outW) ==
    [layer |-> [inW |-> inW, outW |-> outW, id |-> g.serial + 1,
                w |-> <<g.rng.seed, g.rng.pos>>],
     g |-> [rng |-> [g.rng EXCEPT !.pos = @ + inW * outW + outW],
            serial |-> g.serial + 1]]

\* nn.LayerNorm(n): a new object, weight one and bias zero, nothing drawn
LayerNorm(g, n) ==
    [layer |-> [inW |-> n, outW |-> n, id |-> g.serial + 1, w |-> NoDraw],
     g |-> [g EXCEPT !.serial = @ + 1]]

\* nn.BatchNorm1d(n): a new object, weight one and bias zero, nothing drawn
BatchNorm1d(g, n) ==
    [layer |-> [inW |-> n, outW |-> n, id |-> g.serial + 1, w |-> NoDraw],
     g |-> [g EXCEPT !.serial = @ + 1]]

\* fan_in of hidden_init: lim = 1/sqrt(fan_in) is infinite for fan_in = 0
hidden_init(layer) == layer.inW

\* uniform_(-lim, lim) with lim = 1/sqrt(fan_in) refuses infinite limits
UniformRaises(fan_in) == fan_in = 0

\* layer.weight.data.uniform_(...); layer.bias.data.fill_(0)
uniform_(g, layer) ==
    [layer |-> [layer EXCEPT !.w = <<g.rng.seed, g.rng.pos>>],
     g |-> [g EXCEPT !.rng.pos = @ + layer.inW * layer.outW]]

----------------------------------------------------------------------------
(* AssetEncoder *)

\* AssetEncoder.reset_parameters
AssetEncoder_reset_parameters(g, enc) ==
    LET u1 == uniform_(g, enc.fc1)
        u2 == uniform_(u1.g, enc.fc2)
    IN [obj |-> [enc EXCEPT !.fc1 = u1.layer, !.fc2 = u2.layer], g |-> u2.g,
        raised |-> UniformRaises(hidden_init(enc.fc1))
                   \/ UniformRaises(hidden_init(enc.fc2))]

\* AssetEncoder.__init__
AssetEncoder_init(g, features_per_asset, encoding_size, seed, output_size) ==
    LET g0 == manual_seed(g, seed)
        out == PyOr(output_size, encoding_size)
        l1 == Linear(g0, features_per_asset, EncoderHidden)
        l2 == Linear(l1.g, EncoderHidden, out)
        enc == [features_per_asset |-> features_per_asset,
                encoding_size |-> encoding_size,
                output_size |-> out,
                fc1 |-> l1.layer,
                fc2 |-> l2.layer,
                first_forward_done |-> FALSE]
    IN AssetEncoder_reset_parameters(l2.g, enc)

\* a slip: a narrow observation is left as it is
PadState_None(state, asset_features_total) == state

\* a slip: the zeros are put in front of the observation
PadState_Left(state, asset_features_total) ==
    IF Len(state) < asset_features_total
    THEN Zeros(asset_features_total - Len(state)) \o state
    ELSE state

\* the zero padding of an observation narrower than the asset block
PadState(state, asset_features_total) ==
    IF Len(state) < asset_features_total
    THEN state \o Zeros(asset_features_total - Len(state))
    ELSE state

\* a slip: the extra features are not reattached
EncoderOutput_DropsTail(asset_encodings, hasExtra, extra_features) ==
    asset_encodings

\* the encoder's result: the encodings, then the extra features if any
EncoderOutput(asset_encodings, hasExtra, extra_features) ==
    IF hasExtra THEN asset_encodings \o extra_features ELSE asset_encodings

\* a slip: the whole observation is handed to the reshape
AssetBlock_Unsliced(state, asset_features_total) == state

\* the asset block handed to the reshape: state[:, :asset_features_total]
AssetBlock(state, asset_features_total) == SliceTo(state, asset_features_total)

\* a slip: the batch size is left out of the divisor
SafeFeaturesPerAsset_PerBatch(total_elements, batch_size, num_assets) ==
    total_elements \div num_assets

\* the value the fallback writes to features_per_asset
SafeFeaturesPerAsset(total_elements, batch_size, num_assets) ==
    total_elements \div (batch_size * num_assets)

\* AssetEncoder.forward(state, num_assets), state a batch of batch_size rows.
\* The result: the encoder afterwards, whether the call raised, and the
\* encoded row with the steps that led to it.
AssetEncoder_forward(enc, state, batch_size, num_assets) ==
    LET total_features == Len(state)
        asset_features_total == num_assets * enc.features_per_asset
        padded == PadState(state, asset_features_total)
        total2 == Len(padded)
        asset_features == AssetBlock(padded, asset_features_total)
        hasExtra == total2 > asset_features_total
        extra_features == IF hasExtra
                          THEN SliceFrom(padded, asset_features_total)
                          ELSE <<>>
        viewOk == ViewOk(batch_size, Len(asset_features),
                         <<batch_size, num_assets, enc.features_per_asset>>)
        \* the except branch
        total_elements == batch_size * Len(asset_features)
        divZero == batch_size * num_assets = 0
        safe == IF divZero THEN 0
                ELSE SafeFeaturesPerAsset(total_elements, batch_size, num_assets)
        truncated == SliceTo(asset_features, batch_size * num_assets * safe)
        view2Ok == ViewOk(batch_size, Len(truncated),
                          <<batch_size, num_assets, safe>>)
        fallback == ~viewOk
        fpaUsed == IF fallback THEN safe ELSE enc.features_per_asset
        block == IF fallback THEN truncated ELSE asset_features
        raisedInFallback == fallback /\ (divZero \/ ~view2Ok)
        \* self.fc1 applied to a tensor whose last dimension is fpaUsed
        linearOk == fpaUsed = enc.fc1.inW /\ enc.fc2.inW = enc.fc1.outW
        \* asset_encodings.view(batch_size, num_assets * self.output_size)
        flatOk == num_assets * enc.fc2.outW = num_assets * enc.output_size
        raised == raisedInFallback \/ ~linearOk \/ ~flatOk
        asset_encodings ==
            [c \in 1..(num_assets * enc.output_size) |->
                EncCol(((c - 1) \div enc.output_size) + 1,
                       ((c - 1) % enc.output_size) + 1)]
        enc1 == [enc EXCEPT !.first_forward_done = TRUE]
        enc2 == IF fallback /\ ~divZero
                THEN [enc1 EXCEPT !.features_per_asset = safe]
                ELSE enc1
    IN [enc |-> enc2,
        raised |-> raised,
        out |-> IF raised THEN <<>>
                ELSE EncoderOutput(asset_encodings, hasExtra, extra_features),
        padded |-> padded,
        block |-> block,
        assets |-> IF raised THEN <<>> ELSE Chunks(block, num_assets, fpaUsed),
        extra |-> extra_features,
        hasExtra |-> hasExtra,
        fallback |-> fallback,
        safe |-> safe,
        total_elements |-> total_elements]

----------------------------------------------------------------------------
(* EnhancedPortfolioActor *)

NoEncoder ==
    [features_per_asset |-> None, encoding_size |-> None, output_size |-> None,
     fc1 |-> NoLayer, fc2 |-> NoLayer, first_forward_done |-> FALSE]

\* an instance that has not been constructed
NoActor ==
    [constructed |-> FALSE, action_size |-> None, features_per_asset |-> None,
     use_attention |-> FALSE, asset_encoder |-> NoEncoder,
     extra_features |-> None, attention |-> NoLayer, value |-> NoLayer,
     fc1 |-> NoLayer, fc2 |-> NoLayer, fc3 |-> NoLayer,
     ln1 |-> NoLayer, ln2 |-> NoLayer,
     fc1_units |-> None, fc2_units |-> None,
     layers_initialized |-> FALSE, effective_encoding_size |-> None,
     fc_input_size |-> None]

\* EnhancedPortfolioActor.__init__
Actor_init(g, a) ==
    The({
       [obj |-> [constructed |-> TRUE,
                 action_size |-> a.action_size,
                 features_per_asset |-> a.features_per_asset,
                 use_attention |-> a.use_attention,
                 asset_encoder |-> e.obj,
                 extra_features |->
                     a.state_size - (a.features_per_asset * a.action_size),
                 attention |-> NoLayer, value |-> NoLayer,
                 fc1 |-> NoLayer, fc2 |-> NoLayer, fc3 |-> NoLayer,
                 ln1 |-> NoLayer, ln2 |-> NoLayer,
                 fc1_units |-> a.fc1_units, fc2_units |-> a.fc2_units,
                 layers_initialized |-> FALSE,
                 effective_encoding_size |-> None,
                 fc_input_size |-> None],
        g |-> e.g,
        raised |-> e.raised]
       : e \in {AssetEncoder_init(manual_seed(g, a.seed), a.features_per_asset,
                                  a.encoding_size, a.seed,
                                  a.encoder_output_size)} })

\* EnhancedPortfolioActor.reset_parameters: the layers are reset in order,
\* and a refused uniform_ ends the method
Actor_reset_parameters(g, a) ==
    LET has1 == a.fc1 # NoLayer
        bad1 == has1 /\ UniformRaises(hidden_init(a.fc1))
        u1 == IF has1 /\ ~bad1 THEN uniform_(g, a.fc1)
              ELSE [layer |-> a.fc1, g |-> g]
        has2 == ~bad1 /\ a.fc2 # NoLayer
        bad2 == has2 /\ UniformRaises(hidden_init(a.fc2))
        u2 == IF has2 /\ ~bad2 THEN uniform_(u1.g, a.fc2)
              ELSE [layer |-> a.fc2, g |-> u1.g]
        has3 == ~bad1 /\ ~bad2 /\ a.fc3 # NoLayer
        u3 == IF has3 THEN uniform_(u2.g, a.fc3)
              ELSE [layer |-> a.fc3, g |-> u2.g]
    IN [obj |-> [a EXCEPT !.fc1 = u1.layer, !.fc2 = u2.layer, !.fc3 = u3.layer],
        g |-> u3.g,
        raised |-> bad1 \/ bad2]

\* a slip: only the input layer is resized, the layers after it are kept
\* once they exist
initialize_layers_InputOnly(g, a, encoded_size) ==
    LET l1 == Linear(g, encoded_size, a.fc1_units)
        n1 == LayerNorm(l1.g, a.fc1_units)
        l2 == IF a.fc2 # NoLayer THEN [layer |-> a.fc2, g |-> n1.g]
              ELSE Linear(n1.g, a.fc1_units, a.fc2_units)
        n2 == IF a.ln2 # NoLayer THEN [layer |-> a.ln2, g |-> l2.g]
              ELSE LayerNorm(l2.g, a.fc2_units)
        l3 == IF a.fc3 # NoLayer THEN [layer |-> a.fc3, g |-> n2.g]
              ELSE Linear(n2.g, a.fc2_units, a.action_size)
        a1 == [a EXCEPT !.fc1 = l1.layer, !.ln1 = n1.layer, !.fc2 = l2.layer,
                        !.ln2 = n2.layer, !.fc3 = l3.layer]
        u1 == uniform_(l3.g, a1.fc1)
    IN [obj |-> [a1 EXCEPT !.fc1 = u1.layer, !.layers_initialized = TRUE],
        g |-> u1.g,
        raised |-> FALSE]

\* EnhancedPortfolioActor.initialize_layers(encoded_size)
initialize_layers(g, a, encoded_size) ==
    LET l1 == Linear(g, encoded_size, a.fc1_units)
        n1 == LayerNorm(l1.g, a.fc1_units)
        l2 == Linear(n1.g, a.fc1_units, a.fc2_units)
        n2 == LayerNorm(l2.g, a.fc2_units)
        l3 == Linear(n2.g, a.fc2_units, a.action_size)
        a1 == [a EXCEPT !.fc1 = l1.layer, !.ln1 = n1.layer, !.fc2 = l2.layer,
                        !.ln2 = n2.layer, !.fc3 = l3.layer]
    IN The({ [obj |-> IF r.raised THEN r.obj
                      ELSE [r.obj EXCEPT !.layers_initialized = TRUE],
              g |-> r.g,
              raised |-> r.raised]
             : r \in {Actor_reset_parameters(l3.g, a1)} })

\* EnhancedPortfolioActor.initialize_attention_layers(effective_encoding_size):
\* both projections are assigned before the first uniform_, which refuses the
\* infinite limit of a zero width; the width is recorded last
initialize_attention_layers(g, a, effective_encoding_size) ==
    LET la == Linear(g, effective_encoding_size, 1)
        lv == Linear(la.g, effective_encoding_size, effective_encoding_size)
        fan_in == effective_encoding_size
        bad == UniformRaises(fan_in)
        ua == uniform_(lv.g, la.layer)
        uv == uniform_(ua.g, lv.layer)
    IN IF bad
       THEN [obj |-> [a EXCEPT !.attention = la.layer, !.value = lv.layer],
             g |-> lv.g, raised |-> TRUE]
       ELSE [obj |-> [a EXCEPT !.attention = ua.layer, !.value = uv.layer,
                               !.effective_encoding_size =
                                   effective_encoding_size],
             g |-> uv.g, raised |-> FALSE]

\* a slip: the projections are built on every call
NeedsAttentionBuild_Always(a, effective_encoding_size) == TRUE

\* the test of apply_attention that decides whether the projections are built
NeedsAttentionBuild(a, effective_encoding_size) ==
    \/ a.attention = NoLayer
    \/ a.value = NoLayer
    \/ a.effective_encoding_size # effective_encoding_size

\* the test of apply_attention that decides whether a tail is stripped
StripsTail(a, total_size) ==
    a.extra_features > 0 /\ total_size > a.action_size * a.features_per_asset

\* a slip: the width per asset is rounded down
CeilDiv_Floor(total_size, action_size) == total_size \div action_size

\* the width per asset of a block that does not divide evenly, rounded up
CeilDiv(total_size, action_size) ==
    (total_size + action_size - 1) \div action_size

\* apply_attention up to the padding: the tail stripped, the width per asset
\* and the zero-padded block
AttentionShape(a, encoded_assets) ==
    LET total0 == Len(encoded_assets)
        strip == StripsTail(a, total0)
        enc1 == IF strip
                THEN SliceDropLast(encoded_assets, a.extra_features)
                ELSE encoded_assets
        total1 == Len(enc1)
        divisible == total1 % a.action_size = 0
        effective_encoding_size ==
            IF divisible THEN total1 \div a.action_size
            ELSE CeilDiv(total1, a.action_size)
        padding_needed == effective_encoding_size * a.action_size - total1
    IN [strip |-> strip,
        extra_features |-> IF strip
                           THEN SliceLast(encoded_assets, a.extra_features)
                           ELSE <<>>,
        effective_encoding_size |-> effective_encoding_size,
        padded |-> ~divisible /\ padding_needed > 0,
        block |-> IF ~divisible /\ padding_needed > 0
                  THEN enc1 \o Zeros(padding_needed)
                  ELSE enc1]

\* apply_attention from the reshape on: sh the shape, b the actor and the
\* generator after the projections were built (or found built)
AttentionApply(b, sh, batch_size, build) ==
    LET a == b.obj
        viewOk == ViewOk(batch_size, Len(sh.block),
                         <<batch_size, a.action_size,
                           sh.effective_encoding_size>>)
        \* the except branch
        fallback == ~b.raised /\ ~viewOk
        total_elements == batch_size * Len(sh.block)
        safe_encoding_size == total_elements \div (batch_size * a.action_size)
        view2Ok == ViewOk(batch_size, Len(sh.block),
                          <<batch_size, a.action_size, safe_encoding_size>>)
        used == IF fallback THEN safe_encoding_size
                ELSE sh.effective_encoding_size
    IN The({
        LET a2 == b2.obj
            \* self.attention(assets) and self.value(assets): the last
            \* dimension of assets must be the projections' input width
            applyOk == a2.attention.inW = used /\ a2.value.inW = used
            raised == b2.raised \/ (fallback /\ ~view2Ok) \/ ~applyOk
            ctxW == a2.value.outW
            assets == Chunks(sh.block, a2.action_size, used)
            flattened == [c \in 1..(a2.action_size * (used + ctxW)) |->
                            LET i == ((c - 1) \div (used + ctxW)) + 1
                                k == ((c - 1) % (used + ctxW)) + 1
                            IN IF k <= used THEN sh.block[(i - 1) * used + k]
                               ELSE CtxCol(k - used)]
        IN [obj |-> a2,
            g |-> b2.g,
            raised |-> raised,
            out |-> IF raised THEN <<>>
                    ELSE IF sh.strip THEN flattened \o sh.extra_features
                    ELSE flattened,
            block |-> sh.block,
            stripped |-> sh.extra_features,
            strip |-> sh.strip,
            used |-> used,
            builds |-> (IF build THEN 1 ELSE 0) + (IF fallback THEN 1 ELSE 0),
            fallback |-> fallback]
        : b2 \in {IF fallback
                  THEN initialize_attention_layers(b.g, b.obj,
                                                   safe_encoding_size)
                  ELSE b} })

\* EnhancedPortfolioActor.apply_attention(encoded_assets, batch_size)
apply_attention(g, a, encoded_assets, batch_size) ==
    The({ The({ AttentionApply(b1, sh, batch_size,
                    NeedsAttentionBuild(a, sh.effective_encoding_size))
                : b1 \in {IF NeedsAttentionBuild(a, sh.effective_encoding_size)
                          THEN initialize_attention_layers(
                                   g, a, sh.effective_encoding_size)
                          ELSE [obj |-> a, g |-> g, raised |-> FALSE]} })
          : sh \in {AttentionShape(a, encoded_assets)} })

\* a slip: the width test reads fc1's output width (weight.shape[0])
NeedsRebuild_OutputWidth(a, encoded_size) ==
    ~a.layers_initialized \/ a.fc1.outW # encoded_size

\* a slip: the width test reads the flag alone
NeedsRebuild_FlagOnly(a, encoded_size) == ~a.layers_initialized

\* a slip: the trunk is never built
NeedsRebuild_Never(a, encoded_size) == FALSE

\* the test of forward that decides whether the trunk is rebuilt
NeedsRebuild(a, encoded_size) ==
    ~a.layers_initialized \/ a.fc1.inW # encoded_size

\* the value the trunk computes: decided by the input and by every weight used
OutputValue(a, batch_size, F) ==
    [batch |-> batch_size,
     width |-> a.fc3.outW,
     obs |-> F,
     weights |-> <<a.asset_encoder.fc1.w, a.asset_encoder.fc2.w,
                   IF a.use_attention THEN a.attention.w ELSE NoDraw,
                   IF a.use_attention THEN a.value.w ELSE NoDraw,
                   a.fc1.w, a.fc2.w, a.fc3.w>>]

NoOutput == [batch |-> None, width |-> None, obs |-> None,
             weights |-> <<NoDraw, NoDraw, NoDraw, NoDraw, NoDraw, NoDraw, NoDraw>>]

\* forward without the attention step, and forward after a raising encoder
NoAttention(g, a, encoded, raised) ==
    [obj |-> a, g |-> g, raised |-> raised, out |-> encoded,
     block |-> <<>>, stripped |-> <<>>, strip |-> FALSE,
     used |-> None, builds |-> 0, fallback |-> FALSE]

\* forward from the width test on: e the encoder's result, t the result of
\* the attention step
Trunk(e, t, state, batch_size) ==
    LET encoded_state == t.out
        rebuild == ~t.raised /\ NeedsRebuild(t.obj, Len(encoded_state))
    IN The({
        LET a2 == r.obj
            \* fc1, ln1, fc2, ln2, fc3 applied in turn
            trunkOk == /\ a2.fc1.inW = Len(encoded_state)
                       /\ a2.ln1.inW = a2.fc1.outW
                       /\ a2.fc2.inW = a2.ln1.outW
                       /\ a2.ln2.inW = a2.fc2.outW
                       /\ a2.fc3.inW = a2.ln2.outW
            raised == r.raised \/ ~trunkOk
        IN [obj |-> a2,
            g |-> r.g,
            raised |-> raised,
            raisedAt |-> IF e.raised THEN "encoder"
                         ELSE IF t.raised THEN "attention"
                         ELSE IF r.raised THEN "initialize_layers"
                         ELSE IF ~trunkOk THEN "trunk"
                         ELSE "",
            out |-> IF raised THEN NoOutput
                    ELSE OutputValue(a2, batch_size, Len(state)),
            enc |-> e,
            att |-> t,
            trunkIn |-> encoded_state,
            rebuilds |-> IF rebuild THEN 1 ELSE 0]
        : r \in {IF rebuild
                 THEN initialize_layers(t.g, t.obj, Len(encoded_state))
                 ELSE [obj |-> t.obj, g |-> t.g, raised |-> t.raised]} })

\* EnhancedPortfolioActor.forward(state), state a batch of batch_size rows
Actor_forward(g, a, state, batch_size) ==
    The({ The({ Trunk(e, t, state, batch_size)
                : t \in {IF e.raised
                         THEN NoAttention(
                                  g, [a EXCEPT !.asset_encoder = e.enc],
                                  <<>>, TRUE)
                         ELSE IF a.use_attention
                         THEN apply_attention(
                                  g, [a EXCEPT !.asset_encoder = e.enc],
                                  e.out, batch_size)
                         ELSE NoAttention(
                                  g, [a EXCEPT !.asset_encoder = e.enc],
                                  e.out, FALSE)} })
          : e \in {AssetEncoder_forward(a.asset_encoder, state, batch_size,
                                        a.action_size)} })

----------------------------------------------------------------------------
(* PortfolioCritic *)

\* a critic that has not been constructed
NoCritic ==
    [constructed |-> FALSE, use_batch_norm |-> FALSE,
     fcs1 |-> NoLayer, fc2 |-> NoLayer, fc3 |-> NoLayer, fc4 |-> NoLayer,
     bn1 |-> NoLayer, bn2 |-> NoLayer, bn3 |-> NoLayer,
     training |-> FALSE, num_batches_tracked |-> 0]

\* PortfolioCritic.reset_parameters: the layers are reset in order, and a
\* refused uniform_ ends the method
Critic_reset_parameters(g, c) ==
    IF UniformRaises(hidden_init(c.fcs1))
    THEN [obj |-> c, g |-> g, raised |-> TRUE]
    ELSE
    The({ The({ The({ The({
        [obj |-> [c EXCEPT !.fcs1 = u1.layer, !.fc2 = u2.layer,
                           !.fc3 = u3.layer, !.fc4 = u4.layer],
         g |-> u4.g,
         raised |-> FALSE]
        : u4 \in {uniform_(u3.g, c.fc4)} })
        : u3 \in {uniform_(u2.g, c.fc3)} })
        : u2 \in {uniform_(u1.g, c.fc2)} })
        : u1 \in {uniform_(g, c.fcs1)} })

\* PortfolioCritic.__init__: c the arguments.  A module is in training mode
\* when constructed.
Critic_init(g, c) ==
    The({ The({ The({ The({ The({ The({ The({
        Critic_reset_parameters(
            IF c.use_batch_norm THEN b3.g ELSE l4.g,
            [constructed |-> TRUE,
             use_batch_norm |-> c.use_batch_norm,
             fcs1 |-> l1.layer, fc2 |-> l2.layer, fc3 |-> l3.layer,
             fc4 |-> l4.layer,
             bn1 |-> IF c.use_batch_norm THEN b1.layer ELSE NoLayer,
             bn2 |-> IF c.use_batch_norm THEN b2.layer ELSE NoLayer,
             bn3 |-> IF c.use_batch_norm THEN b3.layer ELSE NoLayer,
             training |-> TRUE,
             num_batches_tracked |-> 0])
        : b3 \in {BatchNorm1d(b2.g, c.fc3_units)} })
        : b2 \in {BatchNorm1d(b1.g, c.fc2_units)} })
        : b1 \in {BatchNorm1d(l4.g, c.fcs1_units)} })
        : l4 \in {Linear(l3.g, c.fc3_units, 1)} })
        : l3 \in {Linear(l2.g, c.fc2_units, c.fc3_units)} })
        : l2 \in {Linear(l1.g, c.fcs1_units, c.fc2_units)} })
        : l1 \in {The({ Linear(g0, c.state_size + c.action_size,
                               c.fcs1_units)
                        : g0 \in {manual_seed(g, c.seed)} })} })

\* a slip: a batch of one row is expanded to the other batch's size
CatOk_Broadcast(state_batch, action_batch) ==
    state_batch = action_batch \/ state_batch = 1 \/ action_batch = 1

\* torch.cat((state, action), dim=1): the sizes must agree in every
\* dimension but dimension 1
CatOk(state_batch, action_batch) == state_batch = action_batch

\* BatchNorm1d applied to a batch: in training mode it refuses a batch that
\* holds one value per channel
BatchNormOk(training, batch) == ~(training /\ batch = 1)

\* the value the critic computes: decided by the inputs and by every weight
CriticValue(c, batch, state_width, action_width) ==
    [batch |-> batch, width |-> c.fc4.outW,
     inputs |-> <<state_width, action_width>>,
     weights |-> <<c.fcs1.w, c.fc2.w, c.fc3.w, c.fc4.w>>]

NoValue == [batch |-> None, width |-> None, inputs |-> <<None, None>>,
            weights |-> <<NoDraw, NoDraw, NoDraw, NoDraw>>]

\* PortfolioCritic.forward(state, action): state of shape
\* (state_batch, state_width), action of shape (action_batch, action_width)
Critic_forward(c, state_batch, state_width, action_batch, action_width) ==
    LET catOk == CatOk(state_batch, action_batch)
        x == state_width + action_width
        linOk == /\ c.fcs1.inW = x
                 /\ c.fc2.inW = c.fcs1.outW
                 /\ c.fc3.inW = c.fc2.outW
                 /\ c.fc4.inW = c.fc3.outW
        bnOk == ~c.use_batch_norm \/ BatchNormOk(c.training, state_batch)
        raisedAt == IF ~catOk THEN "cat"
                    ELSE IF ~linOk THEN "linear"
                    ELSE IF ~bnOk THEN "batch_norm"
                    ELSE ""
    IN [obj |-> IF raisedAt = "" /\ c.use_batch_norm /\ c.training
                THEN [c EXCEPT !.num_batches_tracked = @ + 1]
                ELSE c,
        raised |-> raisedAt # "",
        raisedAt |-> raisedAt,
        \* the batch size of the concatenation, had it been carried out
        batch |-> IF catOk THEN state_batch ELSE None,
        out |-> IF raisedAt # "" THEN NoValue
                ELSE CriticValue(c, state_batch, state_width, action_width)]

----------------------------------------------------------------------------
(* Threads inside EnhancedPortfolioActor.forward on one shared actor.  A    *)
(* thread's call is cut into steps at the reads and writes of the actor's   *)
(* attributes; between two steps any other thread may run.                  *)

Threads == {1, 2}

\* the instance the threads share
Shared == 1

NoShape ==
    [strip |-> FALSE, extra_features |-> <<>>, effective_encoding_size |-> None,
     padded |-> FALSE, block |-> <<>>]

\* a thread that is not inside forward and has made no call
NoThread ==
    [pc |-> "idle", F |-> None, B |-> None, enc |-> <<>>, sh |-> NoShape,
     x |-> <<>>, checked |-> FALSE, serialAtCheck |-> None,
     rebuilt |-> FALSE, built |-> NoLayer, attBuilt |-> FALSE, writes |-> 0,
     used |-> <<>>, raisedAt |-> "", made |-> <<>>, final |-> <<>>]

\* the calls the threads have begun: how many, and whether every one of them
\* began on an actor whose latest sequential call had returned for the same
\* observation width
NoRace == [begun |-> 0, sameWidth |-> TRUE]

----------------------------------------------------------------------------
(* FinancialCalendar (financial_calendar.py).  A date is a day number, a    *)
(* timestamp a day and an hour; the events are a dictionary from dates to   *)
(* lists, modelled by a function whose domain is the set of keys.           *)

MaxDay == 3
MaxRows == 2
MaxLookahead == 3

Days == 0..MaxDay
Hours == {0, 12}
Timestamps == [day : Days, hour : Hours]

\* the names bound in the module financial_calendar when it has been
\* imported: the file has no import statement and one class statement
CalendarGlobals == {"FinancialCalendar"}

\* evaluating a global name that is not bound raises NameError
NameError(name) == name \notin CalendarGlobals

\* pd.to_datetime(x).date(): the time of day is dropped
ToDate(ts) == ts.day

\* s.split(','), s a string given as the sequence of its characters
RECURSIVE Split(_)
Split(str) ==
    IF \A k \in 1..Len(str) : str[k] # ","
    THEN <<str>>
    ELSE LET k == CHOOSE j \in 1..Len(str) :
                      /\ str[j] = ","
                      /\ \A m \in 1..(j - 1) : str[m] # ","
         IN <<SubSeq(str, 1, k - 1)>> \o Split(SubSeq(str, k + 1, Len(str)))

\* the rows of a calendar CSV
EventTypes == {"earnings", "macro"}
AssetFields == {<<"A">>, <<"A", ",", "B">>}
CsvRows ==
    [date : Timestamps, event_type : EventTypes, importance : {"high"},
     affected_assets : AssetFields]

RECURSIVE SeqsUpTo(_, _)
SeqsUpTo(S, n) ==
    IF n = 0 THEN {<<>>}
    ELSE LET shorter == SeqsUpTo(S, n - 1)
         IN shorter \cup {Append(q, x) : q \in shorter, x \in S}

CsvFiles == SeqsUpTo(CsvRows, MaxRows)

\* FinancialCalendar.__init__ without data_path: self.events = {}
NoEvents == [d \in {} |-> <<>>]

\* the event load_calendar builds from a row
EventOf(row) ==
    [type |-> row.event_type, importance |-> row.importance,
     affected_assets |-> Split(row.affected_assets)]

\* the loop of load_calendar over the rows of the file
RECURSIVE LoadRows(_, _)
LoadRows(ev, rows) ==
    IF rows = <<>> THEN ev
    ELSE LET date == ToDate(Head(rows).date)
             ev1 == IF date \notin DOMAIN ev
                    THEN [d \in DOMAIN ev \cup {date} |->
                             IF d = date THEN <<>> ELSE ev[d]]
                    ELSE ev
             ev2 == [ev1 EXCEPT ![date] = Append(@, EventOf(Head(rows)))]
         IN LoadRows(ev2, Tail(rows))

\* FinancialCalendar.load_calendar(data_path), rows the content of the
\* file: its first statement evaluates pd
load_calendar(ev, rows) ==
    IF NameError("pd")
    THEN [events |-> ev, raised |-> TRUE, error |-> "NameError"]
    ELSE [events |-> LoadRows(ev, rows), raised |-> FALSE, error |-> ""]

\* the entries get_upcoming_events appends for check_date = current_date + i
UpcomingAt(ev, current_date, i) ==
    IF current_date + i \in DOMAIN ev
    THEN [k \in 1..Len(ev[current_date + i]) |->
             [days_ahead |-> i,
              type |-> ev[current_date + i][k].type,
              importance |-> ev[current_date + i][k].importance,
              affected_assets |-> ev[current_date + i][k].affected_assets]]
    ELSE <<>>

\* the loop of get_upcoming_events: for i in range(lookahead), from i on
RECURSIVE UpcomingFrom(_, _, _, _)
UpcomingFrom(ev, current_date, i, lookahead) ==
    IF i >= lookahead THEN <<>>
    ELSE UpcomingAt(ev, current_date, i)
             \o UpcomingFrom(ev, current_date, i + 1, lookahead)

\* FinancialCalendar.get_upcoming_events(current_date, lookahead): its
\* first statement evaluates pd
get_upcoming_events(ev, current_date, lookahead) ==
    IF NameError("pd")
    THEN [raised |-> TRUE, error |-> "NameError", result |-> <<>>]
    ELSE [raised |-> FALSE, error |-> "",
          result |-> UpcomingFrom(ev, ToDate(current_date), 0, lookahead)]

NoUpcoming ==
    [op |-> "none", rows |-> <<>>, current_date |-> None, lookahead |-> None,
     returned |-> FALSE, error |-> "", result |-> <<>>, before |-> NoEvents]

----------------------------------------------------------------------------
(* align_dataframes (run_enhanced_portfolio_training.py).  A frame is the   *)
(* sequence of its rows and whether it has a date column; a row of a frame  *)
(* with dates is its date, a row of a frame without is its label.  The      *)
(* dictionary of frames is the sequence of its values in insertion order.   *)

MaxDate == 3
MaxFrameRows == 3

\* the missing date: every comparison with it is false
NaT == 0

Dates == 1..MaxDate

\* main calls align_dataframes with at least one ticker (valid_tickers is
\* not empty)
TickerCounts == {1, 2}

PyGt(a, b) == a # NaT /\ b # NaT /\ a > b
PyLt(a, b) == a # NaT /\ b # NaT /\ a < b
PyGe(a, b) == a # NaT /\ b # NaT /\ a >= b
PyLe(a, b) == a # NaT /\ b # NaT /\ a <= b

\* df['date'].min() and df['date'].max(): NaT for a frame without rows
SeriesMin(rows) ==
    IF rows = <<>> THEN NaT
    ELSE CHOOSE d \in {rows[k] : k \in 1..Len(rows)} :
             \A k \in 1..Len(rows) : d <= rows[k]

SeriesMax(rows) ==
    IF rows = <<>> THEN NaT
    ELSE CHOOSE d \in {rows[k] : k \in 1..Len(rows)} :
             \A k \in 1..Len(rows) : d >= rows[k]

\* max(...) and min(...) of Python over a non-empty sequence: the first
\* item, replaced by each later item that compares greater (smaller)
RECURSIVE PyMaxFrom(_, _)
PyMaxFrom(best, items) ==
    IF items = <<>> THEN best
    ELSE PyMaxFrom(IF PyGt(Head(items), best) THEN Head(items) ELSE best,
                   Tail(items))

RECURSIVE PyMinFrom(_, _)
PyMinFrom(best, items) ==
    IF items = <<>> THEN best
    ELSE PyMinFrom(IF PyLt(Head(items), best) THEN Head(items) ELSE best,
                   Tail(items))

\* df[(df['date'] >= start_date) & (df['date'] <= end_date)]
InRange(rows, start_date, end_date) ==
    SelectSeq(rows, LAMBDA d : PyGe(d, start_date) /\ PyLe(d, end_date))

\* sort_values('date'): ascending
RECURSIVE SortByDate(_)
SortByDate(rows) ==
    IF rows = <<>> THEN <<>>
    ELSE LET k == CHOOSE j \in 1..Len(rows) :
                      \A m \in 1..Len(rows) :
                          rows[j] < rows[m] \/ (rows[j] = rows[m] /\ j <= m)
         IN <<rows[k]>>
                \o SortByDate(SubSeq(rows, 1, k - 1)
                                  \o SubSeq(rows, k + 1, Len(rows)))

\* a slip: the frame is returned whole
Truncate_None(rows, n) == rows

\* df.iloc[:n]
Truncate(rows, n) == SliceTo(rows, n)

\* min(lengths)
MinLength(frames) ==
    CHOOSE n \in {Len(frames[k].rows) : k \in 1..Len(frames)} :
        \A k \in 1..Len(frames) : n <= Len(frames[k].rows)

\* the frames truncated to the length of the shortest
TruncateAll(frames) ==
    [k \in 1..Len(frames) |->
        [frames[k] EXCEPT !.rows = Truncate(@, MinLength(frames))]]

\* align_dataframes(dfs)
align_dataframes(d) ==
    IF \A k \in 1..Len(d) : d[k].has_date
    THEN IF d = <<>>
         THEN [returned |-> FALSE, error |-> "ValueError", frames |-> <<>>,
               truncated |-> FALSE]
         ELSE LET mins == [k \in 1..Len(d) |-> SeriesMin(d[k].rows)]
                  maxs == [k \in 1..Len(d) |-> SeriesMax(d[k].rows)]
                  start_date == PyMaxFrom(Head(mins), Tail(mins))
                  end_date == PyMinFrom(Head(maxs), Tail(maxs))
                  aligned_dfs ==
                      [k \in 1..Len(d) |->
                          [d[k] EXCEPT !.rows =
                              SortByDate(InRange(@, start_date, end_date))]]
                  differ == Cardinality({Len(aligned_dfs[k].rows)
                                           : k \in 1..Len(d)}) > 1
              IN [returned |-> TRUE, error |-> "",
                  frames |-> IF differ THEN TruncateAll(aligned_dfs)
                             ELSE aligned_dfs,
                  truncated |-> differ]
    ELSE [returned |-> TRUE, error |-> "", frames |-> TruncateAll(d),
          truncated |-> FALSE]

\* the frames of one ticker as load_data_for_tickers leaves them: sorted by
\* date when they have one (a date may repeat), or rows without dates
RECURSIVE SortedSeqs(_, _)
SortedSeqs(S, n) ==
    IF n = 0 THEN {<<>>}
    ELSE LET shorter == SortedSeqs(S, n - 1)
         IN shorter \cup UNION {{Append(q, x)
                                      : x \in {y \in S : q = <<>>
                                                           \/ q[Len(q)] <= y}}
                                    : q \in shorter}

FrameSet ==
    {[has_date |-> TRUE, rows |-> r] : r \in SortedSeqs(Dates, MaxFrameRows)}
    \cup {[has_date |-> FALSE, rows |-> [k \in 1..n |-> k]]
            : n \in 0..MaxFrameRows}

\* the dictionaries main gives to align_dataframes
FrameDicts == UNION {[1..n -> FrameSet] : n \in TickerCounts}

NoFrames == <<>>

\* the CSV file of a ticker with a date column: its rows in ascending or in
\* descending order of date
RECURSIVE Reverse(_)
Reverse(rows) ==
    IF rows = <<>> THEN <<>> ELSE Append(Reverse(Tail(rows)), Head(rows))

CsvFrames ==
    UNION {{r, Reverse(r)} : r \in SortedSeqs(Dates, MaxFrameRows)}

\* 1 - args.test_ratio, in tenths
TrainTenths == {0, 5, 8, 10}

CsvInputs ==
    [files : UNION {[1..n -> CsvFrames] : n \in TickerCounts},
     train_tenths : TrainTenths,
     loaded : {FALSE}]

NoCsv == [files |-> <<>>, train_tenths |-> 0, loaded |-> FALSE]

\* a slip: the rows are split in the order of the file
LoadSort_None(rows) == rows

\* lines 139-142: the dates are parsed and the rows sorted by date
LoadSort(rows) == SortByDate(rows)

\* line 145: int(len(df) * train_fraction)
TrainSize(len, tenths) == (len * tenths) \div 10

\* load_data_for_tickers(tickers, train_fraction): every ticker has its
\* files and all the required columns and a date column
load_data_for_tickers(files, tenths) ==
    [dfs_train |->
        [k \in 1..Len(files) |->
            [has_date |-> TRUE,
             rows |-> SliceTo(LoadSort(files[k]),
                              TrainSize(Len(files[k]), tenths))]],
     dfs_test |->
        [k \in 1..Len(files) |->
            [has_date |-> TRUE,
             rows |-> SliceFrom(LoadSort(files[k]),
                                TrainSize(Len(files[k]), tenths))]]]

NoAligned ==
    [returned |-> FALSE, error |-> "", frames |-> <<>>, truncated |-> FALSE,
     called |-> FALSE]


----------------------------------------------------------------------------
(* The state machine *)

ArgSet ==
    [state_size : StateSizes,
     action_size : ActionSizes,
     features_per_asset : FeatureSizes,
     seed : {DefaultSeed},
     fc1_units : {DefaultFc1Units},
     fc2_units : {DefaultFc2Units},
     encoding_size : {DefaultEncodingSize},
     use_attention : BOOLEAN,
     encoder_output_size : OutputSizes]

\* the generator before any constructor has seeded it
FreshRng == [seed |-> None, pos |-> 0]

NoCall ==
    [op |-> "none", inst |-> 0, F |-> None, B |-> None, n |-> None,
     returned |-> FALSE, raisedAt |-> "", pre |-> NoActor,
     serialBefore |-> 0, posBefore |-> 0,
     prevF |-> None, prevB |-> None, prevReturned |-> FALSE,
     encOut |-> <<>>, encBlock |-> <<>>, encFallback |-> FALSE,
     encSafe |-> None,
     attBlock |-> <<>>, stripped |-> <<>>, strip |-> FALSE, attUsed |-> None,
     attBuilds |-> 0, attFallback |-> FALSE,
     trunkIn |-> <<>>, rebuilds |-> 0]

\* the seeds other instances are constructed with
Seeds == {0, 1}

NoQCall ==
    [op |-> "none", inst |-> 0, sB |-> None, sW |-> None, aB |-> None,
     aW |-> None, returned |-> FALSE, raisedAt |-> "", pre |-> NoCritic,
     out |-> NoValue]

\* no encoder and no critic has been constructed on its own
PartsIdle ==
    /\ encoders = [i \in Instances |-> NoEncoder]
    /\ critics = [i \in Instances |-> NoCritic]
    /\ qcall = NoQCall

\* no thread is inside forward
ThreadsIdle ==
    /\ threads = [t \in Threads |-> NoThread]
    /\ race = NoRace

\* no calendar has been loaded
CalendarIdle ==
    /\ events = NoEvents
    /\ upcoming = NoUpcoming

\* no frames have been aligned
DataIdle ==
    /\ dfs = NoFrames
    /\ aligned = NoAligned
    /\ csv = NoCsv
    /\ dfs_test = NoFrames
    /\ aligned_test = NoAligned

\* one instance exists, constructed from args
Init ==
    /\ args \in ArgSet
    /\ PartsIdle /\ ThreadsIdle /\ CalendarIdle /\ DataIdle
    /\ \E c \in {Actor_init(G(FreshRng, 0), args)} :
          /\ rng = c.g.rng
          /\ serial = c.g.serial
          /\ actors = [i \in Instances |-> IF i = 1 THEN c.obj ELSE NoActor]
    /\ calls = 0
    /\ last = NoCall
    /\ outs = [i \in Instances |-> NoOutput]

\* no instance exists yet
InitSeed ==
    /\ args \in ArgSet
    /\ PartsIdle /\ ThreadsIdle /\ CalendarIdle /\ DataIdle
    /\ rng = FreshRng
    /\ serial = 0
    /\ actors = [i \in Instances |-> NoActor]
    /\ calls = 0
    /\ last = NoCall
    /\ outs = [i \in Instances |-> NoOutput]

\* EnhancedPortfolioActor(**args) for instance i
Construct(i) ==
    /\ ~actors[i].constructed
    /\ \E c \in {Actor_init(G(rng, serial), args)} :
          /\ rng' = c.g.rng
          /\ serial' = c.g.serial
          /\ actors' = [actors EXCEPT ![i] = c.obj]
          /\ last' = [NoCall EXCEPT !.op = "construct", !.inst = i,
                                    !.returned = ~c.raised,
                                    !.serialBefore = serial,
                                    !.posBefore = rng.pos]
    /\ UNCHANGED <<args, calls, outs>>
    /\ UNCHANGED <<partVars, threadVars, calVars, dataVars>>

\* actors[i].forward(state) on a batch of B observations of width F
Forward(i, F, B) ==
    /\ actors[i].constructed
    /\ calls < MaxCalls
    /\ \E r \in {Actor_forward(G(rng, serial), actors[i], ObsRow(F), B)} :
          /\ rng' = r.g.rng
          /\ serial' = r.g.serial
          /\ actors' = [actors EXCEPT ![i] = r.obj]
          /\ outs' = [outs EXCEPT ![i] = r.out]
          /\ last' = [op |-> "forward", inst |-> i, F |-> F, B |-> B,
                      n |-> actors[i].action_size,
                      returned |-> ~r.raised, raisedAt |-> r.raisedAt,
                      pre |-> actors[i], serialBefore |-> serial,
                      posBefore |-> rng.pos,
                      prevF |-> IF last.op = "forward" /\ last.inst = i
                                THEN last.F ELSE None,
                      prevB |-> IF last.op = "forward" /\ last.inst = i
                                THEN last.B ELSE None,
                      prevReturned |-> last.op = "forward" /\ last.inst = i
                                       /\ last.returned,
                      encOut |-> r.enc.out, encBlock |-> r.enc.block,
                      encFallback |-> r.enc.fallback, encSafe |-> r.enc.safe,
                      attBlock |-> r.att.block, stripped |-> r.att.stripped,
                      strip |-> r.att.strip, attUsed |-> r.att.used,
                      attBuilds |-> r.att.builds,
                      attFallback |-> r.att.fallback,
                      trunkIn |-> r.trunkIn, rebuilds |-> r.rebuilds]
    /\ calls' = calls + 1
    /\ UNCHANGED args
    /\ UNCHANGED <<partVars, threadVars, calVars, dataVars>>

\* actors[i].asset_encoder(state, n) on a batch of B observations of width F
Encode(i, F, B, n) ==
    /\ actors[i].constructed
    /\ \E e \in {AssetEncoder_forward(actors[i].asset_encoder, ObsRow(F),
                                       B, n)} :
          /\ actors' = [actors EXCEPT ![i].asset_encoder = e.enc]
          /\ last' = [NoCall EXCEPT !.op = "encode", !.inst = i, !.F = F,
                                    !.B = B, !.n = n,
                                    !.returned = ~e.raised,
                                    !.raisedAt = IF e.raised THEN "encoder"
                                                 ELSE "",
                                    !.pre = actors[i],
                                    !.serialBefore = serial,
                                    !.posBefore = rng.pos,
                                    !.encOut = e.out, !.encBlock = e.block,
                                    !.encFallback = e.fallback,
                                    !.encSafe = e.safe]
    /\ UNCHANGED <<rng, serial, args, calls, outs>>
    /\ UNCHANGED <<partVars, threadVars, calVars, dataVars>>

\* the first forward of an instance, on the observation the other was given
ForwardSame(i) ==
    /\ outs[i] = NoOutput
    /\ \E F \in Widths, B \in Batches :
          /\ \A j \in Instances :
                outs[j] # NoOutput => outs[j].obs = F /\ outs[j].batch = B
          /\ Forward(i, F, B)

\* AssetEncoder(features_per_asset, encoding_size, seed, output_size) for
\* instance i, on its own
ConstructEncoder(i) ==
    /\ encoders[i] = NoEncoder
    /\ \E c \in {AssetEncoder_init(G(rng, serial), args.features_per_asset,
                                    args.encoding_size, args.seed,
                                    args.encoder_output_size)} :
          /\ ~c.raised
          /\ rng' = c.g.rng
          /\ serial' = c.g.serial
          /\ encoders' = [encoders EXCEPT ![i] = c.obj]
    /\ UNCHANGED <<args, actors, calls, last, outs, critics, qcall>>
    /\ UNCHANGED <<threadVars, calVars, dataVars>>

\* the arguments of PortfolioCritic(state_size, action_size, seed, ...)
CriticArgs(use_batch_norm) ==
    [state_size |-> args.state_size, action_size |-> args.action_size,
     seed |-> args.seed, fcs1_units |-> CriticFcs1Units,
     fc2_units |-> CriticFc2Units, fc3_units |-> CriticFc3Units,
     use_batch_norm |-> use_batch_norm]

\* PortfolioCritic(**CriticArgs) for instance i; the instances are given the
\* same arguments
ConstructCritic(i, use_batch_norm) ==
    /\ ~critics[i].constructed
    /\ \A j \in Instances :
          critics[j].constructed
              => critics[j].use_batch_norm = use_batch_norm
    /\ \E c \in {Critic_init(G(rng, serial), CriticArgs(use_batch_norm))} :
          /\ ~c.raised
          /\ rng' = c.g.rng
          /\ serial' = c.g.serial
          /\ critics' = [critics EXCEPT ![i] = c.obj]
    /\ UNCHANGED <<args, actors, calls, last, outs, encoders, qcall>>
    /\ UNCHANGED <<threadVars, calVars, dataVars>>

\* another instance, an actor, constructed with seed s
ConstructOther(i, s) ==
    /\ ~actors[i].constructed
    /\ \E c \in {Actor_init(G(rng, serial), [args EXCEPT !.seed = s])} :
          /\ rng' = c.g.rng
          /\ serial' = c.g.serial
          /\ actors' = [actors EXCEPT ![i] = c.obj]
          /\ last' = [NoCall EXCEPT !.op = "construct", !.inst = i,
                                    !.returned = ~c.raised,
                                    !.serialBefore = serial,
                                    !.posBefore = rng.pos]
    /\ UNCHANGED <<args, calls, outs>>
    /\ UNCHANGED <<partVars, threadVars, calVars, dataVars>>

\* critics[i].forward(state, action), state of shape (sB, sW) and action of
\* shape (aB, aW)
CriticForward(i, sB, sW, aB, aW) ==
    /\ critics[i].constructed
    /\ calls < MaxCalls
    /\ \E r \in {Critic_forward(critics[i], sB, sW, aB, aW)} :
          /\ critics' = [critics EXCEPT ![i] = r.obj]
          /\ qcall' = [op |-> "forward", inst |-> i, sB |-> sB, sW |-> sW,
                       aB |-> aB, aW |-> aW, returned |-> ~r.raised,
                       raisedAt |-> r.raisedAt, pre |-> critics[i],
                       out |-> r.out]
    /\ calls' = calls + 1
    /\ UNCHANGED <<rng, serial, args, actors, last, outs, encoders>>
    /\ UNCHANGED <<threadVars, calVars, dataVars>>

\* the first forward of the other instance, on an observation of the width
\* it was constructed for
ForwardOther(i) ==
    /\ outs[i] = NoOutput
    /\ \E B \in Batches : Forward(i, args.state_size, B)

\* arguments for an observation made of the asset blocks alone
PartArgSet ==
    {a \in ArgSet : /\ a.use_attention
                    /\ a.state_size = a.action_size * a.features_per_asset}

\* no instance exists yet
InitParts ==
    /\ args \in PartArgSet
    /\ rng = FreshRng
    /\ serial = 0
    /\ actors = [i \in Instances |-> NoActor]
    /\ calls = 0
    /\ last = NoCall
    /\ outs = [i \in Instances |-> NoOutput]
    /\ PartsIdle /\ ThreadsIdle /\ CalendarIdle /\ DataIdle

\* one critic exists, constructed from args
InitCritic ==
    /\ args \in ArgSet
    /\ \E bn \in BOOLEAN :
          \E c \in {Critic_init(G(FreshRng, 0), CriticArgs(bn))} :
              /\ rng = c.g.rng
              /\ serial = c.g.serial
              /\ critics = [i \in Instances |->
                               IF i = 1 THEN c.obj ELSE NoCritic]
    /\ actors = [i \in Instances |-> NoActor]
    /\ calls = 0
    /\ last = NoCall
    /\ outs = [i \in Instances |-> NoOutput]
    /\ encoders = [i \in Instances |-> NoEncoder]
    /\ qcall = NoQCall
    /\ ThreadsIdle /\ CalendarIdle /\ DataIdle

\* the thread's record after a step that raised
Raise(th, where) == [th EXCEPT !.pc = "raised", !.raisedAt = where]

\* the steps leave everything but the shared actor and the generator alone
ThreadFrame ==
    /\ UNCHANGED <<args, calls, last, outs>>
    /\ UNCHANGED <<partVars, calVars, dataVars>>

\* thread t calls forward(state) on the shared actor, state of shape (B, F)
Begin(t, F, B) ==
    /\ threads[t].pc = "idle"
    /\ actors[Shared].constructed
    /\ threads' = [threads EXCEPT ![t] =
                      [NoThread EXCEPT !.pc = "encoder", !.F = F, !.B = B]]
    /\ race' = [begun |-> race.begun + 1,
                sameWidth |-> /\ race.sameWidth
                              /\ last.op = "forward"
                              /\ last.returned
                              /\ last.F = F]
    /\ UNCHANGED <<rng, serial, actors>>
    /\ ThreadFrame

\* line 212: self.asset_encoder(state, self.action_size)
EncoderStep(t) ==
    /\ threads[t].pc = "encoder"
    /\ \E e \in {AssetEncoder_forward(actors[Shared].asset_encoder,
                                       ObsRow(threads[t].F), threads[t].B,
                                       actors[Shared].action_size)} :
          /\ actors' = [actors EXCEPT ![Shared].asset_encoder = e.enc]
          /\ threads' = [threads EXCEPT ![t] =
                IF e.raised THEN Raise(@, "encoder")
                ELSE [@ EXCEPT
                        !.pc = IF actors[Shared].use_attention
                               THEN "att_test" ELSE "check",
                        !.enc = e.out,
                        !.x = e.out,
                        !.writes = @ + (IF e.enc # actors[Shared].asset_encoder
                                        THEN 1 ELSE 0)]]
    /\ UNCHANGED <<rng, serial, race>>
    /\ ThreadFrame

\* lines 169-186: the tail is stripped, the block padded, and the test that
\* decides whether the projections are built reads the shared attributes
AttentionTest(t) ==
    /\ threads[t].pc = "att_test"
    /\ \E sh \in {AttentionShape(actors[Shared], threads[t].enc)} :
          threads' = [threads EXCEPT ![t] =
              [@ EXCEPT !.sh = sh,
                        !.pc = IF NeedsAttentionBuild(
                                      actors[Shared],
                                      sh.effective_encoding_size)
                               THEN "att_build" ELSE "att_apply"]]
    /\ UNCHANGED <<rng, serial, actors, race>>
    /\ ThreadFrame

\* line 187: self.initialize_attention_layers(effective_encoding_size)
AttentionBuild(t) ==
    /\ threads[t].pc = "att_build"
    /\ \E b \in {initialize_attention_layers(
                      G(rng, serial), actors[Shared],
                      threads[t].sh.effective_encoding_size)} :
          /\ rng' = b.g.rng
          /\ serial' = b.g.serial
          /\ actors' = [actors EXCEPT ![Shared] = b.obj]
          /\ threads' = [threads EXCEPT ![t] =
                IF b.raised
                THEN [Raise(@, "attention") EXCEPT !.writes = @ + 2]
                ELSE [@ EXCEPT !.pc = "att_apply", !.attBuilt = TRUE,
                               !.writes = @ + 3]]
    /\ UNCHANGED race
    /\ ThreadFrame

\* lines 189-208: the reshape, the projections applied, the result flattened
AttentionStep(t) ==
    /\ threads[t].pc = "att_apply"
    /\ \E r \in {AttentionApply([obj |-> actors[Shared],
                                  g |-> G(rng, serial), raised |-> FALSE],
                                 threads[t].sh, threads[t].B, FALSE)} :
          /\ rng' = r.g.rng
          /\ serial' = r.g.serial
          /\ actors' = [actors EXCEPT ![Shared] = r.obj]
          /\ threads' = [threads EXCEPT ![t] =
                IF r.raised THEN Raise(@, "attention")
                ELSE [@ EXCEPT !.pc = "check", !.x = r.out,
                               !.attBuilt = @ \/ r.fallback,
                               !.writes = @ + (IF r.fallback THEN 3 ELSE 0)]]
    /\ UNCHANGED race
    /\ ThreadFrame

\* line 215: the width test reads layers_initialized and fc1
WidthCheck(t) ==
    /\ threads[t].pc = "check"
    /\ threads' = [threads EXCEPT ![t] =
          [@ EXCEPT !.checked = TRUE,
                    !.serialAtCheck = serial,
                    !.rebuilt = NeedsRebuild(actors[Shared],
                                             Len(threads[t].x)),
                    !.pc = IF NeedsRebuild(actors[Shared], Len(threads[t].x))
                           THEN "rebuild" ELSE "trunk1"]]
    /\ UNCHANGED <<rng, serial, actors, race>>
    /\ ThreadFrame

\* line 216: self.initialize_layers(encoded_state.size(1))
Rebuild(t) ==
    /\ threads[t].pc = "rebuild"
    /\ \E r \in {initialize_layers(G(rng, serial), actors[Shared],
                                    Len(threads[t].x))} :
          /\ rng' = r.g.rng
          /\ serial' = r.g.serial
          /\ actors' = [actors EXCEPT ![Shared] = r.obj]
          /\ threads' = [threads EXCEPT ![t] =
                IF r.raised
                THEN [Raise(@, "initialize_layers") EXCEPT !.writes = @ + 5]
                ELSE [@ EXCEPT !.pc = "trunk1", !.built = r.obj.fc1,
                               !.writes = @ + 9]]
    /\ UNCHANGED race
    /\ ThreadFrame

\* the five trunk layers of an actor
TrunkOf(a) == <<a.fc1, a.ln1, a.fc2, a.ln2, a.fc3>>

\* whether layer can be applied to a row of the given width
Applies(layer, width) == layer # NoLayer /\ layer.inW = width

\* lines 217-219: each statement reads the layers it applies
TrunkStep(t) ==
    /\ threads[t].pc \in {"trunk1", "trunk2", "trunk3"}
    /\ LET a == actors[Shared]
           pc == threads[t].pc
           ok == IF pc = "trunk1"
                 THEN /\ Applies(a.fc1, Len(threads[t].x))
                      /\ Applies(a.ln1, a.fc1.outW)
                 ELSE IF pc = "trunk2"
                 THEN /\ Applies(a.fc2, threads[t].used[2].outW)
                      /\ Applies(a.ln2, a.fc2.outW)
                 ELSE Applies(a.fc3, threads[t].used[4].outW)
           read == IF pc = "trunk1" THEN <<a.fc1, a.ln1>>
                   ELSE IF pc = "trunk2" THEN <<a.fc2, a.ln2>>
                   ELSE <<a.fc3>>
       IN threads' = [threads EXCEPT ![t] =
             IF ~ok THEN [Raise(@, "trunk") EXCEPT !.used = @ \o read]
             ELSE [@ EXCEPT !.used = @ \o read,
                            !.pc = IF pc = "trunk1" THEN "trunk2"
                                   ELSE IF pc = "trunk2" THEN "trunk3"
                                   ELSE "done"]]
    /\ UNCHANGED <<rng, serial, actors, race>>
    /\ ThreadFrame

\* a slip: reset_parameters is not called
InitNext_NoReset(pc) ==
    CASE pc = "rebuild" -> "init_ln1"
      [] pc = "init_ln1" -> "init_fc2"
      [] pc = "init_fc2" -> "init_ln2"
      [] pc = "init_ln2" -> "init_fc3"
      [] pc = "init_fc3" -> "init_flag"
      [] pc = "init_reset" -> "init_flag"
      [] pc = "init_flag" -> "trunk1"

\* the statements of initialize_layers in order: lines 138-142 assign fc1,
\* ln1, fc2, ln2, fc3, line 143 resets the parameters, line 144 sets the
\* flag, and forward goes on with the trunk
InitNext(pc) ==
    CASE pc = "rebuild" -> "init_ln1"
      [] pc = "init_ln1" -> "init_fc2"
      [] pc = "init_fc2" -> "init_ln2"
      [] pc = "init_ln2" -> "init_fc3"
      [] pc = "init_fc3" -> "init_reset"
      [] pc = "init_reset" -> "init_flag"
      [] pc = "init_flag" -> "trunk1"

\* lines 138-142, one assignment at a time: the layer is created and bound
\* to its attribute of the shared actor
AssignLayer(t) ==
    /\ threads[t].pc \in {"rebuild", "init_ln1", "init_fc2", "init_ln2",
                          "init_fc3"}
    /\ LET a == actors[Shared]
           pc == threads[t].pc
           g == G(rng, serial)
       IN \E new \in {CASE pc = "rebuild"
                              -> Linear(g, Len(threads[t].x), a.fc1_units)
                         [] pc = "init_ln1" -> LayerNorm(g, a.fc1_units)
                         [] pc = "init_fc2"
                              -> Linear(g, a.fc1_units, a.fc2_units)
                         [] pc = "init_ln2" -> LayerNorm(g, a.fc2_units)
                         [] pc = "init_fc3"
                              -> Linear(g, a.fc2_units, a.action_size)} :
             /\ rng' = new.g.rng
             /\ serial' = new.g.serial
             /\ actors' = [actors EXCEPT ![Shared] =
                   CASE pc = "rebuild" -> [a EXCEPT !.fc1 = new.layer]
                     [] pc = "init_ln1" -> [a EXCEPT !.ln1 = new.layer]
                     [] pc = "init_fc2" -> [a EXCEPT !.fc2 = new.layer]
                     [] pc = "init_ln2" -> [a EXCEPT !.ln2 = new.layer]
                     [] pc = "init_fc3" -> [a EXCEPT !.fc3 = new.layer]]
             /\ threads' = [threads EXCEPT ![t] =
                   [@ EXCEPT !.pc = InitNext(pc),
                             !.made = Append(@, new.layer),
                             !.writes = @ + 1]]
    /\ UNCHANGED race
    /\ ThreadFrame

\* line 143: self.reset_parameters() on the layers the actor holds now
ResetStep(t) ==
    /\ threads[t].pc = "init_reset"
    /\ \E r \in {Actor_reset_parameters(G(rng, serial), actors[Shared])} :
          /\ rng' = r.g.rng
          /\ serial' = r.g.serial
          /\ actors' = [actors EXCEPT ![Shared] = r.obj]
          /\ threads' = [threads EXCEPT ![t] =
                IF r.raised THEN Raise(@, "initialize_layers")
                ELSE [@ EXCEPT !.pc = InitNext(threads[t].pc),
                               !.final = TrunkOf(r.obj),
                               !.writes = @ + 3]]
    /\ UNCHANGED race
    /\ ThreadFrame

\* line 144: self.layers_initialized = True
FlagStep(t) ==
    /\ threads[t].pc = "init_flag"
    /\ actors' = [actors EXCEPT ![Shared].layers_initialized = TRUE]
    /\ threads' = [threads EXCEPT ![t] =
          [@ EXCEPT !.pc = InitNext(threads[t].pc), !.writes = @ + 1]]
    /\ UNCHANGED <<rng, serial, race>>
    /\ ThreadFrame

\* arguments of the shared actor: one feature and one encoding column per
\* asset, and a state_size without extra features
ThreadArgSet ==
    {a \in ArgSet : /\ a.features_per_asset = 1
                    /\ a.encoder_output_size = 1
                    /\ a.state_size = a.action_size}

\* the observations the threads present: of the width the actor was
\* constructed for, or one column wider
ThreadWidths == {args.state_size, args.state_size + 1}
ThreadBatches == {1}

\* the shared actor exists, constructed from args
InitThreads ==
    /\ args \in ThreadArgSet
    /\ Init

\* a sequential forward call before any thread has begun
Stabilise(F, B) ==
    /\ race.begun = 0
    /\ calls = 0
    /\ Forward(Shared, F, B)

Step(t) ==
    \/ EncoderStep(t)
    \/ AttentionTest(t)
    \/ AttentionBuild(t)
    \/ AttentionStep(t)
    \/ WidthCheck(t)
    \/ Rebuild(t)
    \/ TrunkStep(t)

\* one asset, one feature, no attention: the trunk alone is shared
InitArgSet ==
    {a \in ThreadArgSet : a.action_size = 1 /\ ~a.use_attention}

\* the shared actor exists, constructed from args
InitInit ==
    /\ args \in InitArgSet
    /\ Init

\* the arguments before any network is constructed
NoArgs ==
    [state_size |-> None, action_size |-> None, features_per_asset |-> None,
     seed |-> None, fc1_units |-> None, fc2_units |-> None,
     encoding_size |-> None, use_attention |-> FALSE,
     encoder_output_size |-> None]

\* no network has been constructed
NetIdle ==
    /\ args = NoArgs
    /\ rng = FreshRng
    /\ serial = 0
    /\ actors = [i \in Instances |-> NoActor]
    /\ calls = 0
    /\ last = NoCall
    /\ outs = [i \in Instances |-> NoOutput]

\* FinancialCalendar(): a calendar with no events
InitCalendar ==
    /\ NetIdle /\ PartsIdle /\ ThreadsIdle /\ CalendarIdle /\ DataIdle

\* calendar.load_calendar(data_path), rows the content of the file
LoadCalendar(rows) ==
    /\ calls < MaxCalls
    /\ \E r \in {load_calendar(events, rows)} :
          /\ events' = r.events
          /\ upcoming' = [NoUpcoming EXCEPT !.op = "load", !.rows = rows,
                                            !.returned = ~r.raised,
                                            !.error = r.error,
                                            !.before = events]
    /\ calls' = calls + 1
    /\ UNCHANGED <<rng, serial, args, actors, last, outs>>
    /\ UNCHANGED <<partVars, threadVars, dataVars>>

\* calendar.get_upcoming_events(current_date, lookahead)
GetUpcoming(current_date, lookahead) ==
    /\ \E r \in {get_upcoming_events(events, current_date, lookahead)} :
          upcoming' = [op |-> "get", rows |-> <<>>,
                       current_date |-> current_date,
                       lookahead |-> lookahead, returned |-> ~r.raised,
                       error |-> r.error, result |-> r.result,
                       before |-> events]
    /\ UNCHANGED events
    /\ UNCHANGED <<netVars, partVars, threadVars, dataVars>>

\* the per-ticker frames are loaded
InitData ==
    /\ NetIdle /\ PartsIdle /\ ThreadsIdle /\ CalendarIdle
    /\ dfs \in FrameDicts
    /\ aligned = NoAligned
    /\ csv = NoCsv
    /\ dfs_test = NoFrames
    /\ aligned_test = NoAligned

\* align_dataframes(dfs)
Align ==
    /\ ~aligned.called
    /\ \E r \in {align_dataframes(dfs)} :
          aligned' = [returned |-> r.returned, error |-> r.error,
                      frames |-> r.frames, truncated |-> r.truncated,
                      called |-> TRUE]
    /\ UNCHANGED <<dfs, csv, dfs_test, aligned_test>>
    /\ UNCHANGED <<netVars, partVars, threadVars, calVars>>

NextData == Align

\* the CSV files exist and have not been loaded
InitLoad ==
    /\ NetIdle /\ PartsIdle /\ ThreadsIdle /\ CalendarIdle
    /\ csv \in CsvInputs
    /\ dfs = NoFrames
    /\ dfs_test = NoFrames
    /\ aligned = NoAligned
    /\ aligned_test = NoAligned

\* lines 544-545: load_data_for_tickers(TICKERS, train_fraction)
Load ==
    /\ ~csv.loaded
    /\ \E r \in {load_data_for_tickers(csv.files, csv.train_tenths)} :
          /\ dfs' = r.dfs_train
          /\ dfs_test' = r.dfs_test
    /\ csv' = [csv EXCEPT !.loaded = TRUE]
    /\ UNCHANGED <<aligned, aligned_test>>
    /\ UNCHANGED <<netVars, partVars, threadVars, calVars>>

\* line 555: aligned_dfs_train = align_dataframes(dfs_train)
AlignTrain ==
    /\ csv.loaded
    /\ Align

\* line 556: aligned_dfs_test = align_dataframes(dfs_test)
AlignTest ==
    /\ aligned.called /\ aligned.returned
    /\ ~aligned_test.called
    /\ \E r \in {align_dataframes(dfs_test)} :
          aligned_test' = [returned |-> r.returned, error |-> r.error,
                           frames |-> r.frames, truncated |-> r.truncated,
                           called |-> TRUE]
    /\ UNCHANGED <<dfs, aligned, csv, dfs_test>>
    /\ UNCHANGED <<netVars, partVars, threadVars, calVars>>

NextLoad == Load \/ AlignTrain \/ AlignTest

NextCalendar ==
    \/ \E rows \in CsvFiles : LoadCalendar(rows)
    \/ \E current_date \in Timestamps, lookahead \in 0..MaxLookahead :
          GetUpcoming(current_date, lookahead)

Next ==
    \E i \in Instances, F \in Widths, B \in Batches : Forward(i, F, B)

\* one forward call of each thread on one actor, after at most one
\* sequential call
NextThreads ==
    \/ \E F \in ThreadWidths, B \in ThreadBatches : Stabilise(F, B)
    \/ \E t \in Threads, F \in ThreadWidths, B \in ThreadBatches :
          Begin(t, F, B)
    \/ \E t \in Threads : Step(t)

\* encoders and critics constructed in one process, among other instances
\* that are constructed and run
NextParts ==
    \/ \E i \in Instances : ConstructEncoder(i)
    \/ \E i \in Instances, bn \in BOOLEAN : ConstructCritic(i, bn)
    \/ \E s \in Seeds : ConstructOther(1, s)
    \/ ForwardOther(1)

NextCritic ==
    \E i \in Instances, sB \in Batches, sW \in StateSizes,
       aB \in Batches, aW \in ActionSizes :
        CriticForward(i, sB, sW, aB, aW)

NextEncoder ==
    \E i \in Instances, F \in Widths, B \in Batches, n \in ActionSizes :
        Encode(i, F, B, n)

NextSeed ==
    \/ \E i \in Instances : Construct(i)
    \/ \E i \in Instances : ForwardSame(i)

\* one forward call of each thread on one actor without attention, after at
\* most one sequential call; initialize_layers runs statement by statement
NextInit ==
    \/ \E F \in ThreadWidths, B \in ThreadBatches : Stabilise(F, B)
    \/ \E t \in Threads, F \in ThreadWidths, B \in ThreadBatches :
          Begin(t, F, B)
    \/ \E t \in Threads : EncoderStep(t)
    \/ \E t \in Threads : WidthCheck(t)
    \/ \E t \in Threads : AssignLayer(t)
    \/ \E t \in Threads : ResetStep(t)
    \/ \E t \in Threads : FlagStep(t)
    \/ \E t \in Threads : TrunkStep(t)

\* sequential forward calls on one actor
Spec == Init /\ [][Next]_vars

\* sequential calls of the encoder alone
SpecEncoder == Init /\ [][NextEncoder]_vars

\* two instances constructed with the same arguments and seed in one process
SpecSeed == InitSeed /\ [][NextSeed]_vars

\* encoders and critics constructed among other instances
SpecParts == InitParts /\ [][NextParts]_vars

\* threads calling forward on one actor, initialize_layers statement by
\* statement
SpecInit == InitInit /\ [][NextInit]_vars

\* threads calling forward on one actor
SpecThreads == InitThreads /\ [][NextThreads]_vars

\* main: the tickers are loaded and split, the training frames and the test
\* frames are aligned
SpecLoad == InitLoad /\ [][NextLoad]_vars

\* align_dataframes applied to loaded frames
SpecData == InitData /\ [][NextData]_vars

\* calls of one FinancialCalendar
SpecCalendar == InitCalendar /\ [][NextCalendar]_vars

\* sequential forward calls on one critic
SpecCritic == InitCritic /\ [][NextCritic]_vars

----------------------------------------------------------------------------
(* The claims *)

\* the instance the last call was made on, as the call left it
Post == actors[last.inst]

\* the last call was a forward that got as far as the trunk's width test
ReachedTrunk == last.op = "forward" /\ last.raisedAt \in {"", "trunk"}

\* C1 (as stated): every forward call rebuilds the trunk exactly once if no
\* trunk exists yet or if the encoded width it computes differs from the
\* input width of the trunk's fc1, and a call that returns leaves fc1's input
\* width equal to its encoded width.
C1_RebuildRule ==
    last.op = "forward" =>
        /\ ~last.pre.layers_initialized => last.rebuilds = 1
        /\ (ReachedTrunk /\ last.pre.fc1.inW # Len(last.trunkIn))
               => last.rebuilds = 1
        /\ last.returned => Post.fc1.inW = Len(last.trunkIn)

\* C2: a forward call that rebuilt the trunk leaves five trunk layers that
\* were all created during that call, by one rebuild, and the weights of
\* fc1, fc2, fc3 were all drawn during that call: nothing of the trunk the
\* call found survives.
C2_RebuildReplacesAll ==
    (last.op = "forward" /\ last.rebuilds = 1) =>
        /\ \A k \in 1..5 :
              /\ TrunkOf(Post)[k] # NoLayer
              /\ TrunkOf(Post)[k].id > last.serialBefore
              /\ \A j \in 1..5 : TrunkOf(Post)[k].id # TrunkOf(last.pre)[j].id
        /\ \A k \in {1, 3, 5} :
              /\ TrunkOf(Post)[k].w[1] = rng.seed
              /\ TrunkOf(Post)[k].w[2] >= last.posBefore
        /\ Post.fc1.inW = Len(last.trunkIn)
        /\ Post.layers_initialized

\* C2's case: a call rebuilt a trunk that an earlier call had built
C2_Witness ==
    /\ last.op = "forward"
    /\ last.rebuilds = 1
    /\ last.pre.layers_initialized
    /\ last.returned

C4_NeverRaises == last.op = "forward" => last.returned

\* C5 (as stated): every forward call returns a batch of the input's batch
\* size with one value per asset.
C5_OneValuePerAsset ==
    last.op = "forward" =>
        /\ outs[last.inst] # NoOutput
        /\ outs[last.inst].batch = last.B
        /\ outs[last.inst].width = last.pre.action_size

\* the columns of the last observation after the asset block
ObsTail == SliceFrom(ObsRow(last.F), last.n * last.pre.features_per_asset)

\* C6 (as stated): when the observation is wider than
\* action_size*features_per_asset, the row handed to the trunk ends with the
\* observation's tail columns, in order, and no observation column is in the
\* block the attention step reshapes into assets.
C6_TailUnchanged ==
    (ReachedTrunk /\ last.F > last.n * last.pre.features_per_asset) =>
        /\ Len(last.trunkIn) >= Len(ObsTail)
        /\ SliceLast(last.trunkIn, Len(ObsTail)) = ObsTail
        /\ \A k \in 1..Len(last.attBlock) : last.attBlock[k][1] # "obs"

\* the encoder the last call ran, before and after it
PreEnc == last.pre.asset_encoder
PostEnc == Post.asset_encoder

\* C7: AssetEncoder.forward returns a row of width
\* num_assets*output_size + max(0, F - num_assets*features_per_asset); an
\* observation narrower than num_assets*features_per_asset is extended on
\* the right with zeros to that width and yields num_assets*output_size
\* encoding columns and no tail.
C7_EncodedWidth ==
    last.op = "encode" =>
        LET aft == last.n * PreEnc.features_per_asset
        IN /\ last.returned
           /\ Len(last.encOut) = last.n * PreEnc.output_size
                                 + Max(0, last.F - aft)
           /\ last.F < aft =>
                 /\ last.encBlock = ObsRow(last.F) \o Zeros(aft - last.F)
                 /\ Len(last.encOut) = last.n * PreEnc.output_size
                 /\ \A k \in 1..Len(last.encOut) : last.encOut[k][1] = "enc"

\* C7's case: an observation one or more columns short was encoded
C7_Witness ==
    /\ last.op = "encode"
    /\ last.F > 0
    /\ last.F < last.n * PreEnc.features_per_asset
    /\ last.returned
    /\ Len(last.encOut) = last.n * PreEnc.output_size

\* C8: no call of AssetEncoder.forward raises, whatever the observation
\* width, the batch size and the number of assets, and whatever calls came
\* before it.
C8_EncoderNeverRaises ==
    last.op = "encode" => last.raisedAt = "" /\ Len(last.encOut) > 0

\* C8's case: after an earlier call, an observation that does not split into
\* num_assets chunks of features_per_asset was encoded
C8_Witness ==
    /\ last.op = "encode"
    /\ PreEnc.first_forward_done
    /\ last.F # last.n * PreEnc.features_per_asset
    /\ last.F % last.n # 0
    /\ last.raisedAt = ""

\* the observation's own asset columns (before any padding) cannot be cut
\* into num_assets equal chunks
Malformed ==
    /\ last.op = "encode"
    /\ last.F < last.n * PreEnc.features_per_asset
    /\ last.F % last.n # 0

C10_SameOutputs ==
    (outs[1] # NoOutput /\ outs[2] # NoOutput) => outs[1] = outs[2]

\* the parameters of an encoder and of a critic: every weight and its shape
EncoderParams(e) ==
    <<e.fc1.inW, e.fc1.outW, e.fc1.w, e.fc2.inW, e.fc2.outW, e.fc2.w>>

CriticParams(c) ==
    <<c.fcs1.inW, c.fcs1.outW, c.fcs1.w, c.fc2.inW, c.fc2.outW, c.fc2.w,
      c.fc3.inW, c.fc3.outW, c.fc3.w, c.fc4.inW, c.fc4.outW, c.fc4.w>>

\* what an encoder returns for a batch: the row it lays out, computed with
\* its weights
EncoderValue(e, F, B, n) ==
    The({ [raised |-> r.raised, row |-> r.out, batch |-> B,
           weights |-> <<e.fc1.w, e.fc2.w>>]
          : r \in {AssetEncoder_forward(e, ObsRow(F), B, n)} })

\* C11: two AssetEncoder instances constructed with the same arguments and
\* seed hold the same parameters and return the same result for every
\* observation, and so do two PortfolioCritic instances for every state and
\* action batch, whatever was constructed or run before or between them.
C11_PartsDeterministic ==
    /\ (encoders[1] # NoEncoder /\ encoders[2] # NoEncoder) =>
          /\ EncoderParams(encoders[1]) = EncoderParams(encoders[2])
          /\ \A F \in Widths, B \in Batches, n \in ActionSizes :
                EncoderValue(encoders[1], F, B, n)
                    = EncoderValue(encoders[2], F, B, n)
    /\ (critics[1].constructed /\ critics[2].constructed) =>
          /\ CriticParams(critics[1]) = CriticParams(critics[2])
          /\ \A sB \in Batches, sW \in StateSizes, aB \in Batches,
                aW \in ActionSizes :
                LET r1 == Critic_forward(critics[1], sB, sW, aB, aW)
                    r2 == Critic_forward(critics[2], sB, sW, aB, aW)
                IN r1.raisedAt = r2.raisedAt /\ r1.out = r2.out

\* C11's case: both encoders and both critics exist, and between the two
\* encoders and between the two critics an actor constructed with another
\* seed drew its lazily built layers
C11_Witness ==
    /\ encoders[1] # NoEncoder /\ encoders[2] # NoEncoder
    /\ critics[1].constructed /\ critics[2].constructed
    /\ critics[1].use_batch_norm
    /\ actors[1].layers_initialized
    /\ actors[1].asset_encoder.fc1.w[1] # args.seed
    /\ encoders[1].fc1.id < actors[1].fc1.id
    /\ critics[1].fcs1.id < actors[1].fc1.id
    /\ actors[1].fc1.id < encoders[2].fc1.id
    /\ actors[1].fc1.id < critics[2].fcs1.id

\* C14: PortfolioCritic.forward given a state batch and an action batch of
\* different batch sizes raises at the concatenation: it returns no value
\* batch, the concatenation takes neither batch size, and the critic is left
\* as it was.
C14_MismatchRaises ==
    (qcall.op = "forward" /\ qcall.sB # qcall.aB) =>
        /\ ~qcall.returned
        /\ qcall.raisedAt = "cat"
        /\ qcall.out = NoValue
        /\ critics[qcall.inst] = qcall.pre

\* C14's case: a critic that had already returned a value was given one
\* state row and a batch of two actions, of the widths it was built for
C14_Witness ==
    /\ qcall.op = "forward"
    /\ qcall.sB = 1 /\ qcall.aB = 2
    /\ qcall.sW = args.state_size /\ qcall.aW = args.action_size
    /\ qcall.pre.num_batches_tracked > 0
    /\ ~qcall.returned

\* thread t's call has applied an fc1 (line 217 was reached)
AppliedFc1(t) == Len(threads[t].used) >= 1

\* the fc1 thread t applied does not take rows of the width t encoded
Mismatched(t) == AppliedFc1(t) /\ threads[t].used[1].inW # Len(threads[t].x)

\* C12: a call applies an fc1 that does not fit its encoded width only
\* through the race: an fc1 that the call itself checked or built always
\* fits, and a misfit fc1 is one that another thread's rebuild installed
\* after the call's own width check, for a different width; the call then
\* fails in the trunk.
C12_MisfitOnlyByRace ==
    \A t \in Threads :
        AppliedFc1(t) =>
            /\ (\/ threads[t].used[1].id <= threads[t].serialAtCheck
                \/ threads[t].used[1] = threads[t].built)
                   => ~Mismatched(t)
            /\ Mismatched(t) =>
                   /\ threads[t].raisedAt = "trunk"
                   /\ \E u \in Threads \ {t} :
                          /\ threads[u].built = threads[t].used[1]
                          /\ Len(threads[u].x) # Len(threads[t].x)

\* C12's case: on an actor stabilised by a sequential call, thread 1 passed
\* its width check without rebuilding, thread 2 then rebuilt the trunk for
\* another width, and thread 1 applied thread 2's fc1
C12_Witness ==
    /\ last.op = "forward" /\ last.returned
    /\ threads[1].checked /\ ~threads[1].rebuilt
    /\ threads[2].rebuilt
    /\ Mismatched(1)
    /\ threads[1].used[1] = threads[2].built
    /\ threads[1].pc = "raised"

\* C13: when every concurrent call began on an actor whose latest sequential
\* call had returned for the same observation width, no call builds the
\* attention projections or the trunk, none writes an attribute of the
\* actor, none raises, and each applies the layers the actor holds, which
\* take rows of its widths.
C13_SafeWhenStabilised ==
    (race.begun > 0 /\ race.sameWidth) =>
        \A t \in Threads :
            /\ threads[t].writes = 0
            /\ ~threads[t].rebuilt
            /\ ~threads[t].attBuilt
            /\ threads[t].pc \notin {"raised", "att_build", "rebuild"}
            /\ AppliedFc1(t) =>
                   /\ threads[t].used[1] = actors[Shared].fc1
                   /\ ~Mismatched(t)
            /\ threads[t].pc = "done" =>
                   threads[t].used = TrunkOf(actors[Shared])
            /\ (threads[t].pc = "check" /\ actors[Shared].use_attention) =>
                   /\ actors[Shared].attention.inW
                          = threads[t].sh.effective_encoding_size
                   /\ actors[Shared].value.inW
                          = threads[t].sh.effective_encoding_size

\* C13's case: on a stabilised actor with attention, two calls of the same
\* width are inside forward at once, one in the trunk and one before its
\* attention step
C13_Witness ==
    /\ race.begun = 2 /\ race.sameWidth
    /\ actors[Shared].use_attention
    /\ threads[1].pc = "trunk2"
    /\ threads[2].pc = "att_apply"

\* the entries of the last result that are i days ahead, without days_ahead
EntriesAt(i) ==
    LET sel == SelectSeq(upcoming.result, LAMBDA e : e.days_ahead = i)
    IN [k \in 1..Len(sel) |->
           [type |-> sel[k].type, importance |-> sel[k].importance,
            affected_assets |-> sel[k].affected_assets]]

\* the events stored for date d, in load order
StoredAt(d) == IF d \in DOMAIN events THEN events[d] ELSE <<>>

\* C15 (as stated): get_upcoming_events(current_date, lookahead) returns a
\* list whose entries have 0 <= days_ahead < lookahead in non-decreasing
\* order, the entries i days ahead being exactly the events stored for
\* current_date + i in load order, and it leaves the stored events as they
\* were.
C15_UpcomingEvents ==
    upcoming.op = "get" =>
        /\ upcoming.returned
        /\ \A k \in 1..Len(upcoming.result) :
              /\ upcoming.result[k].days_ahead >= 0
              /\ upcoming.result[k].days_ahead < upcoming.lookahead
              /\ k > 1 => upcoming.result[k - 1].days_ahead
                              <= upcoming.result[k].days_ahead
        /\ \A i \in 0..(upcoming.lookahead - 1) :
              EntriesAt(i) = StoredAt(ToDate(upcoming.current_date) + i)
        /\ events = upcoming.before

\* C16: align_dataframes returns one frame per input ticker, each made of
\* rows of that ticker's input frame, and all returned frames have the same
\* number of rows, whether or not the frames have a date column.
C16_SameRowCount ==
    aligned.called =>
        /\ aligned.returned
        /\ Len(aligned.frames) = Len(dfs)
        /\ \A i \in 1..Len(dfs) :
              /\ aligned.frames[i].has_date = dfs[i].has_date
              /\ \A k \in 1..Len(aligned.frames[i].rows) :
                    \E m \in 1..Len(dfs[i].rows) :
                        aligned.frames[i].rows[k] = dfs[i].rows[m]
              /\ \A j \in 1..Len(dfs) :
                    Len(aligned.frames[i].rows) = Len(aligned.frames[j].rows)

\* C16's case: two frames with dates that kept different numbers of rows
\* inside the common range were cut to the same length
C16_Witness ==
    /\ aligned.called /\ aligned.returned
    /\ Len(dfs) = 2
    /\ dfs[1].has_date /\ dfs[2].has_date
    /\ aligned.truncated
    /\ Len(aligned.frames[1].rows) = 1
    /\ Len(aligned.frames[2].rows) = 1

\* C17 (as stated): when every input frame has a date column, all non-empty
\* returned frames begin on the same date and end on the same date.
C17_SameDateRange ==
    (aligned.called /\ \A i \in 1..Len(dfs) : dfs[i].has_date) =>
        \A i, j \in 1..Len(aligned.frames) :
            (aligned.frames[i].rows # <<>> /\ aligned.frames[j].rows # <<>>)
                => /\ Head(aligned.frames[i].rows)
                          = Head(aligned.frames[j].rows)
                   /\ aligned.frames[i].rows[Len(aligned.frames[i].rows)]
                          = aligned.frames[j].rows[Len(aligned.frames[j].rows)]

\* the last call was a forward that ran apply_attention
RanAttention ==
    last.op = "forward" /\ last.pre.use_attention /\ last.raisedAt # "encoder"

\* C18 (as stated): apply_attention strips a tail exactly when the encoded
\* batch ends with an extra-feature tail and the columns before it are at
\* least action_size; what it strips is that tail, which it puts back
\* unchanged as the last columns of its result; otherwise it strips nothing.
C18_StripRule ==
    RanAttention =>
        /\ last.strip <=> (/\ ObsTail # <<>>
                           /\ Len(last.encOut) - Len(ObsTail) >= last.n)
        /\ last.strip => last.stripped = ObsTail
        /\ (last.strip /\ ReachedTrunk)
               => SliceLast(last.trunkIn, Len(ObsTail)) = ObsTail
        /\ ~last.strip => last.stripped = <<>>

\* the encoded batch of the last call without the columns apply_attention
\* stripped
Unstripped == SliceDropLast(last.encOut, Len(last.stripped))

\* C19: the width per asset apply_attention reshapes with is the least k
\* with action_size * k columns covering the block left after stripping
\* (the quotient when the block divides evenly); the block it reshapes is
\* that block followed by zeros up to action_size * k columns, so every
\* column of the block is kept in place.
C19_CeilingAndPadding ==
    RanAttention =>
        /\ last.n * last.attUsed >= Len(Unstripped)
        /\ last.n * (last.attUsed - 1) < Len(Unstripped)
        /\ Len(Unstripped) % last.n = 0
               => last.attUsed = Len(Unstripped) \div last.n
        /\ last.attBlock
               = Unstripped \o Zeros(last.n * last.attUsed - Len(Unstripped))

\* C19's case: a block that did not divide evenly was padded and the call
\* returned
C19_Witness ==
    /\ RanAttention
    /\ last.returned
    /\ Len(Unstripped) % last.n # 0
    /\ Len(last.attBlock) > Len(Unstripped)

\* C20 (as stated): the first apply_attention of an actor builds the two
\* projections; a later one builds them if and only if the width per asset
\* it needs differs from the width they were last built for; and after
\* every apply_attention both projections take that call's width per asset
\* and the recorded effective_encoding_size equals it.
C20_ProjectionsFollowWidth ==
    RanAttention =>
        /\ last.pre.attention = NoLayer => last.attBuilds >= 1
        /\ last.pre.attention # NoLayer
               => (last.attBuilds >= 1
                      <=> last.pre.attention.inW # last.attUsed)
        /\ Post.attention.inW = last.attUsed
        /\ Post.value.inW = last.attUsed
        /\ Post.effective_encoding_size = last.attUsed

\* the last call was a forward whose apply_attention returned
AttentionReturned == RanAttention /\ ReachedTrunk

\* C21: the row apply_attention returns has 2 * action_size *
\* effective_encoding_size columns followed by the stripped tail; asset slot
\* i holds the i-th chunk of the reshaped block followed by the context
\* vector, which is the same in every slot.
C21_DoubledWidth ==
    AttentionReturned =>
        /\ Len(last.trunkIn)
               = 2 * last.n * last.attUsed + Len(last.stripped)
        /\ \A i \in 1..last.n : \A k \in 1..last.attUsed :
              /\ last.trunkIn[(i - 1) * 2 * last.attUsed + k]
                     = last.attBlock[(i - 1) * last.attUsed + k]
              /\ last.trunkIn[(i - 1) * 2 * last.attUsed + last.attUsed + k]
                     = <<"ctx", k, 0>>
        /\ SliceLast(last.trunkIn, Len(last.stripped)) = last.stripped

\* C21's case: two assets of width two, a tail stripped and reattached
C21_Witness ==
    /\ AttentionReturned
    /\ last.n = 2
    /\ last.attUsed = 2
    /\ last.stripped # <<>>
    /\ Len(last.trunkIn) = 9

\* C22: on an actor used by one caller at a time, the projections exist
\* after every call that ran apply_attention (which applies them last) and
\* the five trunk layers exist in every call that reached the trunk;
\* layers_initialized is true exactly when the five trunk layers exist, and
\* no call turns it from true to false.
C22_BuiltBeforeUse ==
    /\ \A i \in Instances :
          actors[i].layers_initialized
              <=> \A k \in 1..5 : TrunkOf(actors[i])[k] # NoLayer
    /\ last.op = "forward"
          => (last.pre.layers_initialized => Post.layers_initialized)
    /\ RanAttention => Post.attention # NoLayer /\ Post.value # NoLayer
    /\ ReachedTrunk
          => /\ Post.layers_initialized
             /\ \A k \in 1..5 : TrunkOf(Post)[k] # NoLayer

\* C22's case: the first call of an actor with attention found no layer,
\* built the projections and the trunk, applied them and returned
C22_Witness ==
    /\ AttentionReturned
    /\ last.returned
    /\ last.pre.attention = NoLayer
    /\ ~last.pre.layers_initialized
    /\ last.attBuilds = 1
    /\ last.rebuilds = 1

\* C23: the slot of asset i in the encoder's result holds the encoding of
\* row i of the reshaped asset block, and that row holds the observation's
\* columns (i-1)*features_per_asset+1 .. i*features_per_asset (zeros where
\* the observation is shorter) and nothing else; the columns after the
\* num_assets*output_size encodings are the observation's columns after
\* num_assets*features_per_asset, in order.
C23_PerAssetAndTail ==
    (last.op = "encode" /\ last.returned) =>
        /\ \A i \in 1..last.n :
              /\ \A j \in 1..PreEnc.output_size :
                    last.encOut[(i - 1) * PreEnc.output_size + j]
                        = <<"enc", i, j>>
              /\ \A k \in 1..PreEnc.features_per_asset :
                    Chunks(last.encBlock, last.n,
                           PreEnc.features_per_asset)[i][k]
                        = IF (i - 1) * PreEnc.features_per_asset + k <= last.F
                          THEN <<"obs", (i - 1) * PreEnc.features_per_asset + k,
                                 0>>
                          ELSE <<"zero", 0, 0>>
        /\ SliceFrom(last.encOut, last.n * PreEnc.output_size)
               = SliceFrom(ObsRow(last.F),
                           last.n * PreEnc.features_per_asset)

\* C23's case: two assets of two features each and a tail of one column
C23_Witness ==
    /\ last.op = "encode"
    /\ last.returned
    /\ last.n = 2
    /\ PreEnc.features_per_asset = 2
    /\ last.F = 5
    /\ last.encOut[Len(last.encOut)] = <<"obs", 5, 0>>

\* the last observation extended with zeros to the width of the asset block
ZeroExtended ==
    ObsRow(last.F) \o Zeros(last.n * PreEnc.features_per_asset - last.F)

\* C24: encoding an observation narrower than
\* num_assets*features_per_asset gives what encoding the observation
\* followed by zeros up to that width gives: the same block is reshaped, the
\* same row is returned and the encoder is left the same; the block is the
\* observation, unmoved, followed by zeros.
C24_PaddingDeterminism ==
    (last.op = "encode" /\ last.F < last.n * PreEnc.features_per_asset) =>
        /\ last.returned
        /\ SliceTo(last.encBlock, last.F) = ObsRow(last.F)
        /\ \A k \in (last.F + 1)..Len(last.encBlock) :
              last.encBlock[k] = <<"zero", 0, 0>>
        /\ \E ref \in {AssetEncoder_forward(PreEnc, ZeroExtended, last.B,
                                             last.n)} :
              /\ ~ref.raised
              /\ ref.block = last.encBlock
              /\ ref.out = last.encOut
              /\ ref.enc = PostEnc

\* C24's case: an observation of one column was encoded for two assets of
\* two features
C24_Witness ==
    /\ last.op = "encode"
    /\ last.returned
    /\ last.F = 1
    /\ last.n = 2
    /\ PreEnc.features_per_asset = 2
    /\ Len(last.encBlock) = 4

\* C25: every encoder keeps the features_per_asset it was constructed
\* with, which is the input width of its fc1, through every sequence of
\* calls; at every reshape the block has num_assets*features_per_asset
\* columns, the reshape succeeds, and the value the except branch would
\* write is the value features_per_asset already has.
C25_FeaturesPerAssetFixed ==
    /\ \A i \in Instances :
          actors[i].constructed
              => /\ actors[i].asset_encoder.features_per_asset
                       = args.features_per_asset
                 /\ actors[i].asset_encoder.fc1.inW
                       = args.features_per_asset
    /\ last.op = "encode"
          => /\ Len(last.encBlock) = last.n * args.features_per_asset
             /\ ViewOk(last.B, Len(last.encBlock),
                       <<last.B, last.n, args.features_per_asset>>)
             /\ ~last.encFallback
             /\ last.encSafe = args.features_per_asset

\* C25's case: an encoder that had been called before was called with a
\* batch of two observations too wide for its two assets
C25_Witness ==
    /\ last.op = "encode"
    /\ PreEnc.first_forward_done
    /\ last.B = 2
    /\ last.n = 2
    /\ last.F > 2 * args.features_per_asset
    /\ PostEnc.features_per_asset = args.features_per_asset

\* C26 (as stated): apply_attention strips only columns of the
\* observation's tail: nothing when the observation is no wider than
\* action_size*features_per_asset, otherwise as many columns as the
\* observation has beyond that width, and never a column of an encoding.
C26_StripsOnlyTail ==
    RanAttention =>
        /\ last.F <= last.n * last.pre.features_per_asset
               => last.stripped = <<>>
        /\ (last.F > last.n * last.pre.features_per_asset /\ last.strip)
               => Len(last.stripped)
                      = last.F - last.n * last.pre.features_per_asset
        /\ \A k \in 1..Len(last.stripped) : last.stripped[k][1] # "enc"

\* C27 (as stated): whenever apply_attention reshapes, the width per asset
\* is the encoder's output_size and slot i of the reshaped block is the
\* encoding of asset i, column by column.
C27_SlotsAreAssets ==
    AttentionReturned =>
        /\ last.attUsed = last.pre.asset_encoder.output_size
        /\ Len(last.attBlock) = last.n * last.attUsed
        /\ \A i \in 1..last.n : \A k \in 1..last.attUsed :
              Chunks(last.attBlock, last.n, last.attUsed)[i][k]
                  = <<"enc", i, k>>

\* the trunk the sequential call before the threads built, if it built one
SequentialTrunk ==
    IF last.op = "forward" /\ last.returned /\ last.rebuilds = 1
    THEN TrunkOf(initialize_layers(
                     G([rng EXCEPT !.pos = last.posBefore],
                       last.serialBefore),
                     last.pre, Len(last.trunkIn)).obj)
    ELSE <<>>

\* the five layers the initialize_layers of thread u created, as its
\* reset_parameters left them, if it reset those five
ThreadTrunk(u) ==
    IF /\ threads[u].final # <<>>
       /\ \A k \in 1..5 : threads[u].final[k].id = threads[u].made[k].id
    THEN threads[u].final
    ELSE <<>>

\* thread t ran the whole trunk on five layers that one invocation of
\* initialize_layers created and initialised
OneInvocation(t) ==
    /\ threads[t].pc = "done"
    /\ \/ threads[t].used = SequentialTrunk
       \/ \E u \in Threads : threads[t].used = ThreadTrunk(u)

\* C28 (as stated): under every interleaving of two forward calls on one
\* actor, a call that ran the trunk evaluated five layers that one
\* initialize_layers invocation created and initialised.
C28_OneInvocation ==
    \A t \in Threads : threads[t].pc = "done" => OneInvocation(t)

\* C28 (amended): a call that ran the trunk evaluated five layers that one
\* initialize_layers invocation created and initialised whenever the other
\* call has run no statement of initialize_layers.
C28_OneInvocationUnlessRebuilt ==
    \A t \in Threads :
        (/\ threads[t].pc = "done"
         /\ \A u \in Threads \ {t} : threads[u].made = <<>>)
            => OneInvocation(t)

\* C28's case: on an actor built by a sequential call, thread 1 rebuilt the
\* trunk for another width and ran it while thread 2, which rebuilds
\* nothing, was inside its own trunk
C28_Witness ==
    /\ SequentialTrunk # <<>>
    /\ threads[1].pc = "done"
    /\ threads[1].used = ThreadTrunk(1)
    /\ threads[1].used[1].inW # SequentialTrunk[1].inW
    /\ threads[2].pc = "trunk2"
    /\ threads[2].made = <<>>

\* C29: when every ticker has a date column, no row of an aligned training
\* frame is dated later than a row of an aligned test frame of any ticker,
\* and per ticker the training rows followed by the test rows are the
\* ticker's rows in order of date, each row in exactly one of the two.
C29_NoLookAhead ==
    /\ csv.loaded
          => \A i \in 1..Len(csv.files) :
                /\ dfs[i].rows \o dfs_test[i].rows = SortByDate(csv.files[i])
                /\ \A k \in 1..Len(dfs[i].rows) :
                      \A m \in 1..Len(dfs_test[i].rows) :
                          dfs[i].rows[k] <= dfs_test[i].rows[m]
    /\ aligned_test.called
          => /\ aligned_test.returned
             /\ \A i, j \in 1..Len(csv.files) :
                   \A k \in 1..Len(aligned.frames[i].rows) :
                       \A m \in 1..Len(aligned_test.frames[j].rows) :
                           aligned.frames[i].rows[k]
                               <= aligned_test.frames[j].rows[m]

\* C29's case: two tickers whose files are in different orders were split,
\* and both alignments kept rows of both
C29_Witness ==
    /\ aligned_test.called
    /\ Len(csv.files) = 2
    /\ csv.files[1] # SortByDate(csv.files[1])
    /\ csv.files[2] # csv.files[1]
    /\ \A i \in 1..2 : /\ aligned.frames[i].rows # <<>>
                        /\ aligned_test.frames[i].rows # <<>>

\* C30: whenever apply_attention runs, the block it reshapes has exactly
\* action_size * effective_encoding_size columns, the reshape succeeds, the
\* except branch is not taken, and the projections are built at most once
\* in the call.
C30_ReshapeNeverFails ==
    RanAttention =>
        /\ Len(last.attBlock) = last.n * last.attUsed
        /\ ViewOk(last.B, Len(last.attBlock),
                  <<last.B, last.n, last.attUsed>>)
        /\ ~last.attFallback
        /\ last.attBuilds <= 1

\* C30's case: a batch of two rows whose block was stripped and padded was
\* reshaped after the projections had been rebuilt for it
C30_Witness ==
    /\ AttentionReturned
    /\ last.B = 2
    /\ last.strip
    /\ Len(last.attBlock) > Len(Unstripped)
    /\ last.pre.attention # NoLayer
    /\ last.attBuilds = 1

====
